---------------------------- MODULE Spec2Model ----------------------------
(***************************************************************************)
(* Verification model of the FluxVision VMS ingest-decode core.            *)
(*                                                                         *)
(* Part 1: BoundedQueue (src/core/threading/bounded_queue.h), the ring     *)
(*         buffer between a camera's receive loop and its decode loop.     *)
(*         Every load and store of head_, tail_ and buffer_ is one step,   *)
(*         so all interleavings of the two threads are explored.           *)
(* Part 2: CameraStream (src/core/stream/camera_stream.cpp): start, stop   *)
(*         and reconnect, one step per state update / component change.    *)
(* Part 3: StreamManager (src/core/stream/stream_manager.cpp): registry,   *)
(*         worker pools, per-camera receive and decode loops.              *)
(*                                                                         *)
(* Memory is sequentially consistent in the model; the acquire/release     *)
(* pairs of the queue order exactly the accesses the model orders.         *)
(***************************************************************************)
EXTENDS Integers, Naturals, Sequences, FiniteSets, TLC

(***************************************************************************)
(* Bounds of the model.                                                    *)
(***************************************************************************)
MaxCapacity == 4     \* largest capacity requested from the constructor
NumPackets == 5      \* packets the producer offers in one run
MaxObjs == 2         \* CameraStream objects constructed in one run
MaxCalls == 3        \* calls made by operator threads in one run
NumIds == 1          \* distinct camera ids
MaxFaults == 1       \* exceptions thrown inside receive loops in one run
MaxReconnectAttempts == 3   \* largest RtspClient::Config::maxReconnectAttempts
MaxErrors == 3       \* read errors met by one RtspClient in one run
MaxOps == 2          \* calls made to the StreamManager in one run
MaxUnits == 2        \* NAL units parsed out of one packet
SizeBits == 3        \* width of size_t in the GPUMemoryPool model
NumGpuIds == 2       \* distinct camera ids given to the GPUMemoryPool
MaxGpuOps == 2       \* calls made to the GPUMemoryPool in one run
MaxTasks == 3        \* tasks offered to one thread pool in one run
MaxThreads == 3      \* largest numThreads of a NetworkThreadPool
NumNetIds == 3       \* distinct camera ids given to assignCamera
MaxAssigns == 4      \* assignCamera and unassignCamera calls in one run
MaxQualityCalls == 4 \* setQuality, start and stop calls on one camera in one run
MaxDecoderOps == 6   \* decode, getFrame and reset calls on one decoder in one run
MaxNals == 2         \* NAL units in the buffer handed to parsePacket
MaxPayload == 1      \* payload bytes of a NAL unit after its header byte
NumCams == 3         \* cameras that addCamera can be called for
MaxWorkers == 2      \* threads of the network pool; threads of the decode pool
MaxFleetOps == 2     \* stopAll and startAll calls and receive-loop exceptions in one run

VARIABLES
    \* ---- BoundedQueue<StreamPacket> ----
    capacity_,       \* size_t capacity_
    buffer_,         \* std::vector<T> buffer_, indexed 0 .. capacity_-1
    head_,           \* std::atomic<size_t> head_  (consumer index)
    tail_,           \* std::atomic<size_t> tail_  (producer index)
    qpc,             \* position of the producer and of the consumer thread
    qloc,            \* their locals: currentTail, nextTail, currentHead, item
    produced,        \* number of packets created by the producer so far
    accepted,        \* packets for which push returned true, in order
    rejected,        \* packets for which the producer's last push returned false
    popped,          \* packets returned by the consumer's successful pops, in order
    dropRet,         \* result of the last push made by pushOrDropOldest at its return
    \* ---- CameraStream objects and the threads that call into them ----
    sess,            \* CameraStream objects: state_, rtspClient_, decoder_, packetQueue_
    th,              \* per thread: position, call stack, locals
    calls,           \* number of calls made by operator threads so far
    crashed,         \* the process has died on an access to released memory
    \* ---- StreamManager and the two worker pools ----
    cameras_,        \* registry: camera id -> CameraStream object (0: no entry)
    lockW,           \* camerasMutex_: the thread holding it exclusively, or "none"
    lockR,           \* camerasMutex_: the threads holding it shared
    netTasks,        \* NetworkThreadPool: queued receive tasks (camera ids)
    decTasks,        \* DecodeThreadPool: queued decode tasks (camera ids)
    assigned,        \* NetworkThreadPool::cameraAssignments_ (the ids assigned)
    running_,        \* StreamManager::running_
    nObjs,           \* CameraStream objects constructed so far
    faults,          \* exceptions thrown inside receive loops so far
    \* ---- GPUMemoryPool ----
    gpu,             \* perCameraMemory_, perCameraSurfaces_, totals, statsMutex_
    gth,             \* the threads calling into the GPUMemoryPool
    \* ---- ThreadPool / DecodeThreadPool on its own ----
    pool,            \* running_, tasks_, counters, workers, the shutdown caller
    \* ---- NetworkThreadPool: camera assignment ----
    net,             \* numThreads_, cameraAssignments_, nextThread_
    \* ---- one registered camera and the quality of its decoder ----
    qcam,            \* quality_, the decoder's config_.quality and surface pool
    \* ---- one decoder on its own ----
    dcd,             \* CpuDecoder: frameAvailable_, avFrame_; NvdecDecoder: surfaces_, frameQueue_
    \* ---- one BitstreamParser on its own ----
    bsp,             \* the buffer handed to parsePacket, nalUnits_, what came out
    \* ---- several cameras sharing the workers of the two pools ----
    fleet,           \* camera states, the pools' task queues, the loop each worker runs
    \* ---- StreamManager, continued ----
    callbackMutex_,  \* StreamManager::callbackMutex_: the thread holding it, or "none"
    frameCallback_,  \* StreamManager::frameCallback_ (0: empty std::function)
    mgrAlive,        \* the StreamManager object has not been destroyed
    rtsp             \* one RtspClient: state_, the stream, its background tasks

qvars == <<capacity_, buffer_, head_, tail_, qpc, qloc, produced, accepted,
           rejected, popped, dropRet>>

svars == <<sess, th, calls, crashed>>

\* State that the registry operations and the loops leave alone.
\* The components modelled on their own.
uvars == <<gpu, gth, pool, net, qcam, dcd, bsp, fleet>>

xvars == <<callbackMutex_, frameCallback_, mgrAlive, rtsp, uvars>>

mvars == <<cameras_, lockW, lockR, netTasks, decTasks, assigned, running_, nObjs, faults,
           xvars>>

vars == <<qvars, svars, mvars>>

\* The sequence s is an initial part of the sequence t.
IsPrefix(s, t) == Len(s) <= Len(t) /\ \A i \in 1 .. Len(s) : s[i] = t[i]

(***************************************************************************)
(* Packets.  A StreamPacket is (data, timestamp, isKeyFrame); the model    *)
(* keeps the timestamp as the packet's identity and whether data still     *)
(* holds the bytes.  Moving a packet out of a slot leaves the timestamp    *)
(* and an empty data vector behind.                                        *)
(***************************************************************************)
Packet(n) == [ts |-> n, full |-> TRUE]

DefaultPacket == [ts |-> 0, full |-> FALSE]

MovedFrom(p) == [ts |-> p.ts, full |-> FALSE]

(***************************************************************************)
(* size_t arithmetic used by the queue.                                    *)
(***************************************************************************)
RECURSIVE BitAnd(_, _)
BitAnd(a, b) ==
    IF a = 0 \/ b = 0 THEN 0
    ELSE (IF a % 2 = 1 /\ b % 2 = 1 THEN 1 ELSE 0) + 2 * BitAnd(a \div 2, b \div 2)

RECURSIVE Pow2AtLeast(_, _)
Pow2AtLeast(pow2, capacity) ==
    IF pow2 < capacity THEN Pow2AtLeast(2 * pow2, capacity) ELSE pow2

\* BoundedQueue(capacity): capacity_ after the constructor has run.
RoundedCapacity(capacity) ==
    IF BitAnd(capacity, capacity - 1) # 0 THEN Pow2AtLeast(1, capacity) ELSE capacity

\* (i + 1) & (capacity_ - 1)
NextIndex(i) == BitAnd(i + 1, capacity_ - 1)

QThreads == {"prod", "cons"}

NoLocals == [ctx |-> "none", currentTail |-> 0, nextTail |-> 0, currentHead |-> 0,
             item |-> DefaultPacket, out |-> DefaultPacket]

(***************************************************************************)
(* State after construction of the queue, both threads idle.               *)
(***************************************************************************)
QueueInit(requested) ==
    /\ capacity_ = RoundedCapacity(requested)
    /\ buffer_ = [i \in 0 .. (RoundedCapacity(requested) - 1) |-> DefaultPacket]
    /\ head_ = 0
    /\ tail_ = 0
    /\ qpc = [t \in QThreads |-> "idle"]
    /\ qloc = [t \in QThreads |-> NoLocals]
    /\ produced = 0
    /\ accepted = <<>>
    /\ rejected = {}
    /\ popped = <<>>
    /\ dropRet = "none"

\* The queue of a specification that is not about the ring buffer.
QueueUnused == QueueInit(1)

(***************************************************************************)
(* bool push(T&& item), one step per shared access.  ctx says who called:  *)
(* "push" (a direct call), "first" and "retry" (the two calls made by      *)
(* pushOrDropOldest).                                                      *)
(***************************************************************************)
SetLoc(t, f, v) == [qloc EXCEPT ![t][f] = v]

\* What the caller does with push's result r.
PushReturn(t, r) ==
    LET c == qloc[t].ctx
        x == qloc[t].item
    IN  /\ accepted' = IF r THEN Append(accepted, x) ELSE accepted
        /\ IF c = "first" /\ ~r
           THEN \* line 56-57: T dummy; pop(dummy);
                /\ qpc' = [qpc EXCEPT ![t] = "pop_load"]
                /\ UNCHANGED <<rejected, dropRet>>
           ELSE /\ qpc' = [qpc EXCEPT ![t] = "idle"]
                /\ rejected' = IF c = "push" /\ ~r THEN rejected \cup {x.ts} ELSE rejected
                /\ dropRet' = IF c \in {"first", "retry"} THEN r ELSE dropRet

\* const size_t currentTail = tail_.load(relaxed); nextTail = (currentTail + 1) & (capacity_ - 1)
PushLoad(t) ==
    /\ qpc[t] = "push_load"
    /\ qloc' = [qloc EXCEPT ![t].currentTail = tail_, ![t].nextTail = NextIndex(tail_)]
    /\ qpc' = [qpc EXCEPT ![t] = "push_check"]
    /\ UNCHANGED <<capacity_, buffer_, head_, tail_, produced, accepted, rejected,
                   popped, dropRet>>
    /\ UNCHANGED <<svars, mvars>>

PushFullNeverFull(nextTail, head) == FALSE

PushFullLate(nextTail, head) == nextTail + 1 = head

\* The full test of push.
PushFull(nextTail, head) == nextTail = head

\* if (nextTail == head_.load(acquire)) return false;
PushCheck(t) ==
    /\ qpc[t] = "push_check"
    /\ IF PushFull(qloc[t].nextTail, head_)
       THEN PushReturn(t, FALSE)
       ELSE /\ qpc' = [qpc EXCEPT ![t] = "push_write"]
            /\ UNCHANGED <<accepted, rejected, dropRet>>
    /\ UNCHANGED <<capacity_, buffer_, head_, tail_, qloc, produced, popped>>
    /\ UNCHANGED <<svars, mvars>>

\* buffer_[currentTail] = std::move(item);
PushWrite(t) ==
    /\ qpc[t] = "push_write"
    /\ buffer_' = [buffer_ EXCEPT ![qloc[t].currentTail] = qloc[t].item]
    /\ qpc' = [qpc EXCEPT ![t] = "push_store"]
    /\ UNCHANGED <<capacity_, head_, tail_, qloc, produced, accepted, rejected,
                   popped, dropRet>>
    /\ UNCHANGED <<svars, mvars>>

\* tail_.store(nextTail, release); return true;
PushStore(t) ==
    /\ qpc[t] = "push_store"
    /\ tail_' = qloc[t].nextTail
    /\ PushReturn(t, TRUE)
    /\ UNCHANGED <<capacity_, buffer_, head_, qloc, produced, popped>>
    /\ UNCHANGED <<svars, mvars>>

(***************************************************************************)
(* bool pop(T& item), one step per shared access.  The move out of the     *)
(* slot is a read of the slot followed by the write that empties it.       *)
(***************************************************************************)
\* What the caller does with pop's result r.
PopReturn(t, r) ==
    IF t = "prod"
    THEN \* line 58: push(std::forward<T>(item)), the retry of pushOrDropOldest
         /\ qpc' = [qpc EXCEPT ![t] = "push_load"]
         /\ qloc' = SetLoc(t, "ctx", "retry")
         /\ UNCHANGED popped
    ELSE /\ qpc' = [qpc EXCEPT ![t] = "idle"]
         /\ popped' = IF r THEN Append(popped, qloc[t].out) ELSE popped
         /\ UNCHANGED qloc

\* const size_t currentHead = head_.load(relaxed);
PopLoad(t) ==
    /\ qpc[t] = "pop_load"
    /\ qloc' = SetLoc(t, "currentHead", head_)
    /\ qpc' = [qpc EXCEPT ![t] = "pop_check"]
    /\ UNCHANGED <<capacity_, buffer_, head_, tail_, produced, accepted, rejected,
                   popped, dropRet>>
    /\ UNCHANGED <<svars, mvars>>

\* The empty test of pop.
PopEmpty(currentHead, tail) == currentHead = tail

\* if (currentHead == tail_.load(acquire)) return false;
PopCheck(t) ==
    /\ qpc[t] = "pop_check"
    /\ IF PopEmpty(qloc[t].currentHead, tail_)
       THEN PopReturn(t, FALSE)
       ELSE /\ qpc' = [qpc EXCEPT ![t] = "pop_read"]
            /\ UNCHANGED <<qloc, popped>>
    /\ UNCHANGED <<capacity_, buffer_, head_, tail_, produced, accepted, rejected,
                   dropRet>>
    /\ UNCHANGED <<svars, mvars>>

\* item = std::move(buffer_[currentHead]);  -- the read of the slot
PopRead(t) ==
    /\ qpc[t] = "pop_read"
    /\ qloc' = SetLoc(t, "out", buffer_[qloc[t].currentHead])
    /\ qpc' = [qpc EXCEPT ![t] = "pop_clear"]
    /\ UNCHANGED <<capacity_, buffer_, head_, tail_, produced, accepted, rejected,
                   popped, dropRet>>
    /\ UNCHANGED <<svars, mvars>>

\* item = std::move(buffer_[currentHead]);  -- the slot is left moved-from
PopClear(t) ==
    /\ qpc[t] = "pop_clear"
    /\ buffer_' = [buffer_ EXCEPT ![qloc[t].currentHead] = MovedFrom(@)]
    /\ qpc' = [qpc EXCEPT ![t] = "pop_store"]
    /\ UNCHANGED <<capacity_, head_, tail_, qloc, produced, accepted, rejected,
                   popped, dropRet>>
    /\ UNCHANGED <<svars, mvars>>

\* The index pop publishes.
PopNewHead(currentHead) == NextIndex(currentHead)

\* head_.store((currentHead + 1) & (capacity_ - 1), release); return true;
PopStore(t) ==
    /\ qpc[t] = "pop_store"
    /\ head_' = PopNewHead(qloc[t].currentHead)
    /\ PopReturn(t, TRUE)
    /\ UNCHANGED <<capacity_, buffer_, tail_, produced, accepted, rejected, dropRet>>
    /\ UNCHANGED <<svars, mvars>>

(***************************************************************************)
(* The callers.                                                            *)
(***************************************************************************)
\* A producer thread calls push(packet) with the next packet.
ProducerCallPush ==
    /\ qpc["prod"] = "idle"
    /\ produced < NumPackets
    /\ produced' = produced + 1
    /\ qloc' = [qloc EXCEPT !["prod"] =
                   [NoLocals EXCEPT !.ctx = "push", !.item = Packet(produced + 1)]]
    /\ qpc' = [qpc EXCEPT !["prod"] = "push_load"]
    /\ UNCHANGED <<capacity_, buffer_, head_, tail_, accepted, rejected, popped, dropRet>>
    /\ UNCHANGED <<svars, mvars>>

\* Receive loop: packetQueue->pushOrDropOldest(std::move(packet)) for the next NAL
\* unit; pushOrDropOldest begins with push(std::forward<T>(item)).
ReceiveLoopPush ==
    /\ qpc["prod"] = "idle"
    /\ produced < NumPackets
    /\ produced' = produced + 1
    /\ qloc' = [qloc EXCEPT !["prod"] =
                   [NoLocals EXCEPT !.ctx = "first", !.item = Packet(produced + 1)]]
    /\ qpc' = [qpc EXCEPT !["prod"] = "push_load"]
    /\ dropRet' = "none"
    /\ UNCHANGED <<capacity_, buffer_, head_, tail_, accepted, rejected, popped>>
    /\ UNCHANGED <<svars, mvars>>

\* Decode loop / consumer thread: packetQueue->pop(packet); a popped packet is
\* handed to decoder->decode.
ConsumerCallPop ==
    /\ qpc["cons"] = "idle"
    /\ qloc' = [qloc EXCEPT !["cons"] = NoLocals]
    /\ qpc' = [qpc EXCEPT !["cons"] = "pop_load"]
    /\ UNCHANGED <<capacity_, buffer_, head_, tail_, produced, accepted, rejected,
                   popped, dropRet>>
    /\ UNCHANGED <<svars, mvars>>

PushSteps(t) == PushLoad(t) \/ PushCheck(t) \/ PushWrite(t) \/ PushStore(t)

PopSteps(t) == PopLoad(t) \/ PopCheck(t) \/ PopRead(t) \/ PopClear(t) \/ PopStore(t)

(***************************************************************************)
(* Part 2: CameraStream.                                                   *)
(*                                                                         *)
(* A session object holds state_, rtspClient_, decoder_ and packetQueue_.  *)
(* rtspClient_ and decoder_ are 0 (null) or the number of the object they  *)
(* own; every make_unique / DecoderFactory::create yields a fresh number,  *)
(* so a pointer taken earlier is recognisably stale.                       *)
(***************************************************************************)
Objs == 1 .. MaxObjs

Threads == {"op1", "op2", "net1", "dec1", "dec2"}

Operators == {"op1", "op2"}

StreamStates == {"STOPPED", "CONNECTING", "RUNNING", "ERROR", "RECONNECTING"}

\* Storage no CameraStream has been constructed in (or one that was destroyed).
NoSession == [alive |-> FALSE, state |-> "STOPPED", auto |-> FALSE, client |-> 0,
              decoder |-> 0, clients |-> 0, decoders |-> 0, queued |-> FALSE,
              stats |-> 0, frameReady |-> FALSE, delivered |-> 0,
              conn |-> "NONE", bg |-> 0]

\* CameraStream::CameraStream(config): state_ STOPPED, no client, no decoder,
\* an empty packet queue.
NewSession(autoReconnect) == [NoSession EXCEPT !.alive = TRUE, !.auto = autoReconnect]

\* DecodeResult before any decode.
NoResult == [status |-> "NONE", frame |-> 0]

IdleThread == [pc |-> "idle", obj |-> 0, rets |-> <<>>, rv |-> FALSE, id |-> 0,
               cli |-> 0, dec |-> 0, from |-> "none", todo |-> {}, res |-> NoResult,
               arg |-> 0]

\* Move thread t to a label.
Goto(t, label) == th' = [th EXCEPT ![t].pc = label]

\* Thread t calls a CameraStream method (its first label) and continues at back.
CallFn(t, entry, back) == th' = [th EXCEPT ![t].pc = entry, ![t].rets = <<back>> \o @]

\* Thread t returns v from the method it is in.
Ret(t, v) ==
    th' = IF Head(th[t].rets) = "idle"
          THEN [th EXCEPT ![t] = IdleThread]
          ELSE [th EXCEPT ![t].pc = Head(th[t].rets), ![t].rets = Tail(th[t].rets),
                          ![t].rv = v]

\* void CameraStream::updateState(newState): state_.exchange(newState)
updateState(o, newState) == sess' = [sess EXCEPT ![o].state = newState]

SessionLabels == {"start_check", "start_connecting", "start_rtsp", "start_decoder",
                  "start_failed", "start_running", "stop_check", "stop_state",
                  "stop_client", "stop_decoder", "stop_drain", "rc_check", "rc_state"}

\* A method runs on storage whose object has been destroyed: the process dies.
OnDeadObject(t) ==
    /\ ~crashed
    /\ th[t].pc \in SessionLabels
    /\ ~sess[th[t].obj].alive
    /\ crashed' = TRUE
    /\ UNCHANGED <<sess, th, calls>>
    /\ UNCHANGED <<qvars, mvars>>

\* ------------------------------ start() ---------------------------------
StartAlreadyRunningNever(st) == FALSE

\* if (state_.load() == StreamState::RUNNING) return true;
StartAlreadyRunning(st) == st = "RUNNING"

StartCheck(t) ==
    /\ ~crashed
    /\ th[t].pc = "start_check"
    /\ sess[th[t].obj].alive
    /\ IF StartAlreadyRunning(sess[th[t].obj].state)
       THEN Ret(t, TRUE)
       ELSE Goto(t, "start_connecting")
    /\ UNCHANGED <<sess, calls, crashed>>
    /\ UNCHANGED <<qvars, mvars>>

\* updateState(StreamState::CONNECTING);
StartConnecting(t) ==
    /\ ~crashed
    /\ th[t].pc = "start_connecting"
    /\ sess[th[t].obj].alive
    /\ updateState(th[t].obj, "CONNECTING")
    /\ Goto(t, "start_rtsp")
    /\ UNCHANGED <<calls, crashed>>
    /\ UNCHANGED <<qvars, mvars>>

\* initializeRtspClient(): rtspClient_ = std::make_unique<RtspClient>(); connect
\* succeeds, fails or throws.
StartRtsp(t) ==
    /\ ~crashed
    /\ th[t].pc = "start_rtsp"
    /\ sess[th[t].obj].alive
    /\ \E connected \in BOOLEAN :
          /\ sess' = [sess EXCEPT ![th[t].obj].client = sess[th[t].obj].clients + 1,
                                  ![th[t].obj].clients = @ + 1,
                                  ![th[t].obj].conn = IF connected THEN "CONNECTED"
                                                                   ELSE "ERROR"]
          /\ Goto(t, IF connected THEN "start_decoder" ELSE "start_failed")
    /\ UNCHANGED <<calls, crashed>>
    /\ UNCHANGED <<qvars, mvars>>

\* initializeDecoder(): rtspClient_->getStreamInfo, then DecoderFactory::create
\* (NVDEC, then CPU); decoder_ is assigned the result, which may be null.
StartDecoder(t) ==
    /\ ~crashed
    /\ th[t].pc = "start_decoder"
    /\ sess[th[t].obj].alive
    /\ IF sess[th[t].obj].client = 0
       THEN \* rtspClient_->getStreamInfo through a null pointer
            /\ crashed' = TRUE
            /\ UNCHANGED <<sess, th>>
       ELSE /\ UNCHANGED crashed
            /\ \/ \* getStreamInfo fails: decoder_ is not touched
                  /\ Goto(t, "start_failed")
                  /\ UNCHANGED sess
               \/ \* no decoder could be created: decoder_ = nullptr
                  /\ Goto(t, "start_failed")
                  /\ sess' = [sess EXCEPT ![th[t].obj].decoder = 0,
                                          ![th[t].obj].frameReady = FALSE]
               \/ \* a decoder was created
                  /\ Goto(t, "start_running")
                  /\ sess' = [sess EXCEPT ![th[t].obj].decoder = sess[th[t].obj].decoders + 1,
                                          ![th[t].obj].decoders = @ + 1,
                                          ![th[t].obj].frameReady = FALSE]
    /\ UNCHANGED calls
    /\ UNCHANGED <<qvars, mvars>>

\* updateState(StreamState::ERROR); return false;
StartFailed(t) ==
    /\ ~crashed
    /\ th[t].pc = "start_failed"
    /\ sess[th[t].obj].alive
    /\ updateState(th[t].obj, "ERROR")
    /\ Ret(t, FALSE)
    /\ UNCHANGED <<calls, crashed>>
    /\ UNCHANGED <<qvars, mvars>>

\* updateState(StreamState::RUNNING); return true;
StartRunning(t) ==
    /\ ~crashed
    /\ th[t].pc = "start_running"
    /\ sess[th[t].obj].alive
    /\ updateState(th[t].obj, "RUNNING")
    /\ Ret(t, TRUE)
    /\ UNCHANGED <<calls, crashed>>
    /\ UNCHANGED <<qvars, mvars>>

\* ------------------------------- stop() ---------------------------------
\* The already-stopped test of stop(), replaced by one that always succeeds.
StopAlreadyStoppedAlways(st) == TRUE

\* state_.load() == StreamState::STOPPED
StopAlreadyStopped(st) == st = "STOPPED"

\* if (state_.load() == StreamState::STOPPED) return;
StopCheck(t) ==
    /\ ~crashed
    /\ th[t].pc = "stop_check"
    /\ sess[th[t].obj].alive
    /\ IF StopAlreadyStopped(sess[th[t].obj].state)
       THEN Ret(t, FALSE)
       ELSE Goto(t, "stop_state")
    /\ UNCHANGED <<sess, calls, crashed>>
    /\ UNCHANGED <<qvars, mvars>>

\* updateState(StreamState::STOPPED);
StopState(t) ==
    /\ ~crashed
    /\ th[t].pc = "stop_state"
    /\ sess[th[t].obj].alive
    /\ updateState(th[t].obj, "STOPPED")
    /\ Goto(t, "stop_client")
    /\ UNCHANGED <<calls, crashed>>
    /\ UNCHANGED <<qvars, mvars>>

\* if (rtspClient_) { rtspClient_->disconnect(); rtspClient_.reset(); }
StopClient(t) ==
    /\ ~crashed
    /\ th[t].pc = "stop_client"
    /\ sess[th[t].obj].alive
    /\ sess' = [sess EXCEPT ![th[t].obj].client = 0, ![th[t].obj].conn = "NONE"]
    /\ Goto(t, "stop_decoder")
    /\ UNCHANGED <<calls, crashed>>
    /\ UNCHANGED <<qvars, mvars>>

\* if (decoder_) decoder_.reset();
StopDecoder(t) ==
    /\ ~crashed
    /\ th[t].pc = "stop_decoder"
    /\ sess[th[t].obj].alive
    /\ sess' = [sess EXCEPT ![th[t].obj].decoder = 0, ![th[t].obj].frameReady = FALSE]
    /\ Goto(t, "stop_drain")
    /\ UNCHANGED <<calls, crashed>>
    /\ UNCHANGED <<qvars, mvars>>

\* while (packetQueue_.pop(dummy)) {}  then stats_ = Stats{} (stats_ is written
\* nowhere else, so it is zero throughout).
StopDrain(t) ==
    /\ ~crashed
    /\ th[t].pc = "stop_drain"
    /\ sess[th[t].obj].alive
    /\ sess' = [sess EXCEPT ![th[t].obj].queued = FALSE, ![th[t].obj].stats = 0]
    /\ Ret(t, FALSE)
    /\ UNCHANGED <<calls, crashed>>
    /\ UNCHANGED <<qvars, mvars>>

\* ----------------------------- reconnect() ------------------------------
\* if (state_.load() == StreamState::RECONNECTING) return false;
ReconnectCheck(t) ==
    /\ ~crashed
    /\ th[t].pc = "rc_check"
    /\ sess[th[t].obj].alive
    /\ IF sess[th[t].obj].state = "RECONNECTING"
       THEN /\ Ret(t, FALSE)
       ELSE /\ th' = [th EXCEPT ![t].pc = "rc_state", ![t].from = sess[th[t].obj].state]
    /\ UNCHANGED <<sess, calls, crashed>>
    /\ UNCHANGED <<qvars, mvars>>

\* updateState(StreamState::RECONNECTING); stop();
ReconnectState(t) ==
    /\ ~crashed
    /\ th[t].pc = "rc_state"
    /\ sess[th[t].obj].alive
    /\ updateState(th[t].obj, "RECONNECTING")
    /\ CallFn(t, "stop_check", "rc_sleep")
    /\ UNCHANGED <<calls, crashed>>
    /\ UNCHANGED <<qvars, mvars>>

\* std::this_thread::sleep_for(500 ms); ... start()
ReconnectSleep(t) ==
    /\ ~crashed
    /\ th[t].pc = "rc_sleep"
    /\ CallFn(t, "start_check", "rc_return")
    /\ UNCHANGED <<sess, calls, crashed>>
    /\ UNCHANGED <<qvars, mvars>>

\* return start();
ReconnectReturn(t) ==
    /\ ~crashed
    /\ th[t].pc = "rc_return"
    /\ th' = IF Head(th[t].rets) = "idle"
             THEN [th EXCEPT ![t] = IdleThread]
             ELSE [th EXCEPT ![t].pc = Head(th[t].rets), ![t].rets = Tail(th[t].rets),
                             ![t].from = "none"]
    /\ UNCHANGED <<sess, calls, crashed>>
    /\ UNCHANGED <<qvars, mvars>>

\* Thread t is inside reconnect(), past its RECONNECTING test.
InReconnect(t) ==
    \/ th[t].pc \in {"rc_state", "rc_sleep", "rc_return"}
    \/ \E i \in 1 .. Len(th[t].rets) : th[t].rets[i] \in {"rc_sleep", "rc_return"}

SessionStep(t) ==
    \/ StartCheck(t) \/ StartConnecting(t) \/ StartRtsp(t) \/ StartDecoder(t)
    \/ StartFailed(t) \/ StartRunning(t)
    \/ StopCheck(t) \/ StopState(t) \/ StopClient(t) \/ StopDecoder(t) \/ StopDrain(t)
    \/ ReconnectCheck(t) \/ ReconnectState(t) \/ ReconnectSleep(t) \/ ReconnectReturn(t)

\* ------------------- callers of one session object ----------------------
\* A thread calls start(), stop() or reconnect() on the session.
CallSession(t, entry) ==
    /\ th[t].pc = "idle"
    /\ calls < MaxCalls
    /\ calls' = calls + 1
    /\ th' = [th EXCEPT ![t] = [IdleThread EXCEPT !.pc = entry, !.obj = 1,
                                                  !.rets = <<"idle">>]]
    /\ UNCHANGED <<sess, crashed>>
    /\ UNCHANGED <<qvars, mvars>>

CallStart(t) == CallSession(t, "start_check")

CallStop(t) == CallSession(t, "stop_check")

CallReconnect(t) == CallSession(t, "rc_check")

AllIdle == \A t \in Threads : th[t].pc = "idle"

SessionInit ==
    /\ \E autoReconnect \in BOOLEAN :
          sess = [o \in Objs |-> IF o = 1 THEN NewSession(autoReconnect) ELSE NoSession]
    /\ th = [t \in Threads |-> IdleThread]
    /\ calls = 0
    /\ crashed = FALSE

\* The session state of a specification that is not about sessions.
SessionUnused ==
    /\ sess = [o \in Objs |-> NoSession]
    /\ th = [t \in Threads |-> IdleThread]
    /\ calls = 0
    /\ crashed = FALSE

(***************************************************************************)
(* Claims about the camera session.                                        *)
(***************************************************************************)
\* The transitions of the camera state listed in the data model.
ListedTransitions ==
    {<<"STOPPED", "CONNECTING">>, <<"CONNECTING", "RUNNING">>, <<"CONNECTING", "ERROR">>,
     <<"RUNNING", "ERROR">>, <<"ERROR", "RECONNECTING">>, <<"RECONNECTING", "RUNNING">>,
     <<"RECONNECTING", "ERROR">>}

\* The step is stop()'s state update.
ByStop == \E t \in Threads : th[t].pc = "stop_state" /\ th'[t].pc = "stop_client"

\* Every change of a session's state in this step is in the set allowed, or is a
\* change to STOPPED made by stop().
ChangesWithin(allowed) ==
    \A o \in Objs :
        sess'[o].state # sess[o].state =>
            \/ <<sess[o].state, sess'[o].state>> \in allowed
            \/ sess'[o].state = "STOPPED" /\ ByStop

C8_StaysReconnecting ==
    \A t \in Threads :
        (InReconnect(t) /\ th[t].from = "RUNNING" /\ th[t].pc # "rc_state")
            => sess[th[t].obj].state \notin {"STOPPED", "CONNECTING"}

\* C9: reconnect is single-flight: at no time are two threads inside reconnect,
\* past its Reconnecting test, on the same camera.
C9_SingleFlight ==
    \A t, u \in Threads :
        (t # u /\ InReconnect(t) /\ InReconnect(u)) => th[t].obj # th[u].obj

\* Thread t returns from stop() in this step.
StopReturns(t) ==
    /\ th[t].pc \in {"stop_check", "stop_drain"}
    /\ th'[t].pc \notin {"stop_check", "stop_state", "stop_drain"}

\* The camera is Stopped with nothing left: no client, no decoder, an empty packet
\* queue, zero statistics.
StoppedClean(s) ==
    /\ s.state = "STOPPED"
    /\ s.client = 0
    /\ s.decoder = 0
    /\ ~s.queued
    /\ s.stats = 0

\* C11: stop() is idempotent: whatever the state it is called in, when it returns
\* the camera is Stopped with the RTSP client and the decoder released, the packet
\* queue empty and the statistics zero; and a stop() on a Stopped camera changes
\* nothing.
C11_StopIdempotent ==
    [][\A t \in Threads :
          StopReturns(t) =>
              /\ StoppedClean(sess'[th[t].obj])
              /\ th[t].pc = "stop_check" => sess' = sess]_vars

\* C11 witness: a stop() called on a camera that had packets queued has set the
\* state and released the client and the decoder, and is about to drain the queue.
C11_Witness ==
    \E t \in Threads : /\ th[t].pc = "stop_drain"
                       /\ th[t].rets = <<"idle">>
                       /\ sess[th[t].obj].queued
                       /\ sess[th[t].obj].state = "STOPPED"
                       /\ sess[th[t].obj].client = 0

(***************************************************************************)
(* Part 3: StreamManager, the network pool and the decode pool.            *)
(*                                                                         *)
(* Operator threads call addCamera, removeCamera and reconnectAll; the     *)
(* network worker runs receive tasks and the decode worker runs decode     *)
(* tasks.  A task keeps the raw CameraStream*, RtspClient* and IDecoder*   *)
(* it read at its start.  An access through a pointer whose object has     *)
(* been destroyed either kills the process or reads the bytes the object   *)
(* left behind.                                                            *)
(***************************************************************************)
Ids == 1 .. NumIds

NetWorkers == {"net1"}

DecWorkers == {"dec1"}

\* camerasMutex_ can be taken shared / exclusively.
CanLockShared == lockW = "none"

CanLockUnique == lockW = "none" /\ lockR = {}

\* The RtspClient* a receive task holds still points to the camera's client.
ClientValid(w) == sess[th[w].obj].alive /\ sess[th[w].obj].client = th[w].cli

\* The IDecoder* a decode task holds still points to the camera's decoder.
DecoderValid(w) == sess[th[w].obj].alive /\ sess[th[w].obj].decoder = th[w].dec

\* ~CameraStream() has run and the storage is released; the bytes stay behind.
Destroyed(o) == [sess EXCEPT ![o].alive = FALSE]

\* ------------------------------ addCamera -------------------------------
\* if (!initialized_) ...; { shared_lock; if (cameras_.find(id) != end) return false; }
AddCheck(t, id) ==
    /\ ~crashed
    /\ th[t].pc = "idle"
    /\ calls < MaxOps
    /\ nObjs < MaxObjs
    /\ CanLockShared
    /\ calls' = calls + 1
    /\ IF cameras_[id] # 0
       THEN UNCHANGED th
       ELSE th' = [th EXCEPT ![t] = [IdleThread EXCEPT !.pc = "add_create", !.id = id,
                                                       !.rets = <<"idle">>]]
    /\ UNCHANGED <<sess, crashed, qvars, mvars>>

\* auto camera = std::make_unique<CameraStream>(config); camera->start()
AddCreate(t) ==
    /\ ~crashed
    /\ th[t].pc = "add_create"
    /\ nObjs < MaxObjs
    /\ nObjs' = nObjs + 1
    /\ \E autoReconnect \in BOOLEAN :
          sess' = [sess EXCEPT ![nObjs + 1] = NewSession(autoReconnect)]
    /\ th' = [th EXCEPT ![t].obj = nObjs + 1, ![t].pc = "start_check",
                        ![t].rets = <<"add_started">> \o @]
    /\ UNCHANGED <<calls, crashed, qvars, cameras_, lockW, lockR, netTasks, decTasks,
                   assigned, running_, faults>>
    /\ UNCHANGED xvars

\* if (!camera->start()) return false;   -- the unique_ptr destroys the camera,
\* ~CameraStream() calls stop().  Otherwise networkPool_->assignCamera(config.id).
AddStarted(t) ==
    /\ ~crashed
    /\ th[t].pc = "add_started"
    /\ IF th[t].rv
       THEN /\ Goto(t, "add_insert")
            /\ assigned' = assigned \cup {th[t].id}
       ELSE /\ CallFn(t, "stop_check", "add_free")
            /\ UNCHANGED assigned
    /\ UNCHANGED <<sess, calls, crashed, qvars, cameras_, lockW, lockR, netTasks,
                   decTasks, running_, nObjs, faults>>
    /\ UNCHANGED xvars

\* The failed camera's storage is released; return false.
AddFree(t) ==
    /\ ~crashed
    /\ th[t].pc = "add_free"
    /\ sess' = Destroyed(th[t].obj)
    /\ Ret(t, FALSE)
    /\ UNCHANGED <<calls, crashed, qvars, mvars>>

\* { unique_lock; cameras_[config.id] = std::move(camera); }  -- an entry already
\* there is overwritten and its CameraStream destroyed (~CameraStream calls stop()).
AddInsert(t) ==
    /\ ~crashed
    /\ th[t].pc = "add_insert"
    /\ CanLockUnique
    /\ cameras_' = [cameras_ EXCEPT ![th[t].id] = th[t].obj]
    /\ IF cameras_[th[t].id] # 0
       THEN /\ lockW' = t
            /\ th' = [th EXCEPT ![t].obj = cameras_[th[t].id], ![t].pc = "stop_check",
                                ![t].rets = <<"add_old_free">> \o @]
       ELSE /\ Goto(t, "add_submit_recv")
            /\ UNCHANGED lockW
    /\ UNCHANGED <<sess, calls, crashed, qvars, lockR, netTasks, decTasks, assigned,
                   running_, nObjs, faults>>
    /\ UNCHANGED xvars

\* The overwritten camera's storage is released and the lock dropped.
AddOldFree(t) ==
    /\ ~crashed
    /\ th[t].pc = "add_old_free"
    /\ sess' = Destroyed(th[t].obj)
    /\ lockW' = "none"
    /\ Goto(t, "add_submit_recv")
    /\ UNCHANGED <<calls, crashed, qvars, cameras_, lockR, netTasks, decTasks, assigned,
                   running_, nObjs, faults>>
    /\ UNCHANGED xvars

\* startNetworkReceiveLoop(config.id): networkPool_->submit(...)
AddSubmitRecv(t) ==
    /\ ~crashed
    /\ th[t].pc = "add_submit_recv"
    /\ netTasks' = Append(netTasks, th[t].id)
    /\ Goto(t, "add_submit_decode")
    /\ UNCHANGED <<sess, calls, crashed, qvars, cameras_, lockW, lockR, decTasks,
                   assigned, running_, nObjs, faults>>
    /\ UNCHANGED xvars

\* startDecodeLoop(config.id): decodePool_->submitDecodeTask(...); return true;
AddSubmitDecode(t) ==
    /\ ~crashed
    /\ th[t].pc = "add_submit_decode"
    /\ decTasks' = Append(decTasks, th[t].id)
    /\ Ret(t, TRUE)
    /\ UNCHANGED <<sess, calls, crashed, qvars, cameras_, lockW, lockR, netTasks,
                   assigned, running_, nObjs, faults>>
    /\ UNCHANGED xvars

\* ----------------------------- removeCamera -----------------------------
\* unique_lock; find(id); not found: return false;  found: it->second->stop();
RemoveLock(t, id) ==
    /\ ~crashed
    /\ th[t].pc = "idle"
    /\ calls < MaxOps
    /\ CanLockUnique
    /\ calls' = calls + 1
    /\ IF cameras_[id] = 0
       THEN UNCHANGED <<th, lockW>>
       ELSE /\ lockW' = t
            /\ th' = [th EXCEPT ![t] = [IdleThread EXCEPT !.pc = "stop_check", !.id = id,
                                            !.obj = cameras_[id],
                                            !.rets = <<"rm_erase", "idle">>]]
    /\ UNCHANGED <<sess, crashed, qvars, cameras_, lockR, netTasks, decTasks, assigned,
                   running_, nObjs, faults>>
    /\ UNCHANGED xvars

\* networkPool_->unassignCamera(id); cameras_.erase(it);  -- ~CameraStream calls stop()
RemoveErase(t) ==
    /\ ~crashed
    /\ th[t].pc = "rm_erase"
    /\ assigned' = assigned \ {th[t].id}
    /\ cameras_' = [cameras_ EXCEPT ![th[t].id] = 0]
    /\ CallFn(t, "stop_check", "rm_free")
    /\ UNCHANGED <<sess, calls, crashed, qvars, lockW, lockR, netTasks, decTasks,
                   running_, nObjs, faults>>
    /\ UNCHANGED xvars

\* The erased camera's storage is released, the lock dropped; return true.
RemoveFree(t) ==
    /\ ~crashed
    /\ th[t].pc = "rm_free"
    /\ sess' = Destroyed(th[t].obj)
    /\ lockW' = "none"
    /\ Ret(t, TRUE)
    /\ UNCHANGED <<calls, crashed, qvars, cameras_, lockR, netTasks, decTasks, assigned,
                   running_, nObjs, faults>>
    /\ UNCHANGED xvars

\* ----------------------------- reconnectAll -----------------------------
\* shared_lock; for (auto& [id, camera] : cameras_) ...
ReconnectAllLock(t) ==
    /\ ~crashed
    /\ th[t].pc = "idle"
    /\ calls < MaxOps
    /\ CanLockShared
    /\ calls' = calls + 1
    /\ lockR' = lockR \cup {t}
    /\ th' = [th EXCEPT ![t] = [IdleThread EXCEPT !.pc = "ra_next", !.rets = <<"idle">>,
                                    !.todo = {id \in Ids : cameras_[id] # 0}]]
    /\ UNCHANGED <<sess, crashed, qvars, cameras_, lockW, netTasks, decTasks, assigned,
                   running_, nObjs, faults>>
    /\ UNCHANGED xvars

\* if (camera->getState() == StreamState::ERROR) camera->reconnect();  -- and, after
\* the last camera, the lock is dropped.
ReconnectAllNext(t) ==
    /\ ~crashed
    /\ th[t].pc = "ra_next"
    /\ IF th[t].todo = {}
       THEN /\ lockR' = lockR \ {t}
            /\ Ret(t, FALSE)
       ELSE /\ UNCHANGED lockR
            /\ \E id \in th[t].todo :
                  IF sess[cameras_[id]].state = "ERROR"
                  THEN th' = [th EXCEPT ![t].todo = @ \ {id}, ![t].obj = cameras_[id],
                                        ![t].pc = "rc_check",
                                        ![t].rets = <<"ra_next">> \o @]
                  ELSE th' = [th EXCEPT ![t].todo = @ \ {id}]
    /\ UNCHANGED <<sess, calls, crashed, qvars, cameras_, lockW, netTasks, decTasks,
                   assigned, running_, nObjs, faults>>
    /\ UNCHANGED xvars

\* --------------------------- the receive task ---------------------------
\* ThreadPool::workerLoop: task = std::move(tasks_.front()); tasks_.pop(); task();
NetTake(w) ==
    /\ ~crashed
    /\ th[w].pc = "idle"
    /\ netTasks # <<>>
    /\ netTasks' = Tail(netTasks)
    /\ th' = [th EXCEPT ![w] = [IdleThread EXCEPT !.pc = "rl_get", !.id = Head(netTasks),
                                    !.rets = <<"idle">>]]
    /\ UNCHANGED <<sess, calls, crashed, qvars, cameras_, lockW, lockR, decTasks,
                   assigned, running_, nObjs, faults>>
    /\ UNCHANGED xvars

\* CameraStream* camera = getCamera(cameraId); if (!camera) return;
LoopGet(w, here, next) ==
    /\ ~crashed
    /\ th[w].pc = here
    /\ CanLockShared
    /\ IF cameras_[th[w].id] = 0
       THEN Ret(w, FALSE)
       ELSE th' = [th EXCEPT ![w].obj = cameras_[th[w].id], ![w].pc = next]
    /\ UNCHANGED <<sess, calls, crashed, qvars, mvars>>

RecvGet(w) == LoopGet(w, "rl_get", "rl_ptrs")

\* The task dies on an access through a pointer to destroyed storage.
LoopLabels == {"rl_ptrs", "rl_cond", "rl_recv", "rl_catch",
               "dl_ptrs", "dl_cond", "dl_pop", "dl_decode"}

LoopCrash(w) ==
    /\ ~crashed
    /\ th[w].pc \in LoopLabels
    /\ \/ ~sess[th[w].obj].alive
       \/ th[w].pc = "rl_recv" /\ ~ClientValid(w)
       \/ th[w].pc = "dl_decode" /\ ~DecoderValid(w)
    /\ crashed' = TRUE
    /\ UNCHANGED <<sess, th, calls, qvars, mvars>>

\* auto* rtspClient = camera->getRtspClient(); ... if (!rtspClient || !packetQueue) return;
RecvPtrs(w) ==
    /\ ~crashed
    /\ th[w].pc = "rl_ptrs"
    /\ IF sess[th[w].obj].client = 0
       THEN Ret(w, FALSE)
       ELSE th' = [th EXCEPT ![w].cli = sess[th[w].obj].client, ![w].pc = "rl_cond"]
    /\ UNCHANGED <<sess, calls, crashed, qvars, mvars>>

\* while (running_ && camera->isRunning())
LoopCond(w, here, next) ==
    /\ ~crashed
    /\ th[w].pc = here
    /\ IF running_ /\ sess[th[w].obj].state = "RUNNING"
       THEN Goto(w, next)
       ELSE Ret(w, FALSE)
    /\ UNCHANGED <<sess, calls, crashed, qvars, mvars>>

RecvCond(w) == LoopCond(w, "rl_cond", "rl_recv")

\* RtspClient::receiveNalUnits after a failed av_read_frame that is not EAGAIN:
\* state_ = RECONNECTING and a detached attemptReconnect thread when
\* config_.autoReconnect, else state_ = ERROR; it returns 0.
ReadError(s) ==
    [s EXCEPT !.conn = IF s.auto THEN "RECONNECTING" ELSE "ERROR",
              !.bg = IF s.auto THEN s.client ELSE s.bg]

\* rtspClient->receiveNalUnits(nalUnits): NAL units arrive and are pushed with
\* pushOrDropOldest; or nothing arrives (timeout, or the client is not
\* connected); or the read fails; or an exception is thrown (not by a client
\* that is not connected: it returns 0 before doing anything).
RecvReceive(w) ==
    /\ ~crashed
    /\ th[w].pc = "rl_recv"
    /\ \/ /\ ClientValid(w) => sess[th[w].obj].conn = "CONNECTED"
          /\ sess' = [sess EXCEPT ![th[w].obj].queued = TRUE]
          /\ Goto(w, "rl_cond")
          /\ UNCHANGED faults
       \/ /\ Goto(w, "rl_cond")
          /\ UNCHANGED <<sess, faults>>
       \/ /\ ClientValid(w)
          /\ sess[th[w].obj].conn = "CONNECTED"
          /\ sess' = [sess EXCEPT ![th[w].obj] = ReadError(@)]
          /\ Goto(w, "rl_cond")
          /\ UNCHANGED faults
       \/ /\ faults < MaxFaults
          /\ ClientValid(w) => sess[th[w].obj].conn = "CONNECTED"
          /\ faults' = faults + 1
          /\ Goto(w, "rl_catch")
          /\ UNCHANGED sess
    /\ UNCHANGED <<calls, crashed, qvars, cameras_, lockW, lockR, netTasks, decTasks,
                   assigned, running_, nObjs>>
    /\ UNCHANGED xvars

\* RtspClient::attemptReconnect on its detached thread: the stream is reopened
\* (state_ = CONNECTED) or every attempt fails (state_ = ERROR).  If the client
\* has been destroyed meanwhile, the thread runs on released memory.
ClientBackground(o) ==
    /\ ~crashed
    /\ sess[o].bg # 0
    /\ IF sess[o].alive /\ sess[o].client = sess[o].bg
       THEN /\ \E reopened \in BOOLEAN :
                  sess' = [sess EXCEPT ![o].bg = 0,
                                       ![o].conn = IF reopened THEN "CONNECTED" ELSE "ERROR"]
            /\ UNCHANGED crashed
       ELSE \/ /\ crashed' = TRUE
               /\ UNCHANGED sess
            \/ /\ sess' = [sess EXCEPT ![o].bg = 0]
               /\ UNCHANGED crashed
    /\ UNCHANGED <<th, calls, qvars, mvars>>

\* catch: if (camera->getConfig().autoReconnect) camera->reconnect();  break;
RecvCatch(w) ==
    /\ ~crashed
    /\ th[w].pc = "rl_catch"
    /\ IF sess[th[w].obj].auto
       THEN Goto(w, "rc_check")
       ELSE Ret(w, FALSE)
    /\ UNCHANGED <<sess, calls, crashed, qvars, mvars>>

\* --------------------------- the decode task ----------------------------
\* DecodeThreadPool::decodeWorkerLoop: task = std::move(tasks_.front()); ... task.task(ctx)
DecTake(w) ==
    /\ ~crashed
    /\ th[w].pc = "idle"
    /\ decTasks # <<>>
    /\ decTasks' = Tail(decTasks)
    /\ th' = [th EXCEPT ![w] = [IdleThread EXCEPT !.pc = "dl_get", !.id = Head(decTasks),
                                    !.rets = <<"idle">>]]
    /\ UNCHANGED <<sess, calls, crashed, qvars, cameras_, lockW, lockR, netTasks,
                   assigned, running_, nObjs, faults>>
    /\ UNCHANGED xvars

DecGet(w) == LoopGet(w, "dl_get", "dl_ptrs")

\* auto* decoder = camera->getDecoder(); ... if (!decoder || !packetQueue) return;
DecPtrs(w) ==
    /\ ~crashed
    /\ th[w].pc = "dl_ptrs"
    /\ IF sess[th[w].obj].decoder = 0
       THEN Ret(w, FALSE)
       ELSE th' = [th EXCEPT ![w].dec = sess[th[w].obj].decoder, ![w].pc = "dl_cond"]
    /\ UNCHANGED <<sess, calls, crashed, qvars, mvars>>

DecCond(w) == LoopCond(w, "dl_cond", "dl_pop")

\* if (packetQueue->pop(packet)) ... else sleep_for(1 ms)
DecPop(w) ==
    /\ ~crashed
    /\ th[w].pc = "dl_pop"
    /\ IF sess[th[w].obj].queued
       THEN /\ \E more \in BOOLEAN : sess' = [sess EXCEPT ![th[w].obj].queued = more]
            /\ Goto(w, "dl_decode")
       ELSE /\ Goto(w, "dl_cond")
            /\ UNCHANGED sess
    /\ UNCHANGED <<calls, crashed, qvars, mvars>>

\* What happens inside the decoder for one packet: it produces a picture, wants
\* more data, rejects the data, fails, or throws.
DecodeOutcomes == {"picture", "need_more", "invalid", "failure", "throws"}

\* CpuDecoder::decode / NvdecDecoder::decode: the DecodeResult returned for an
\* outcome.  result.frame is set to nullptr at the top and assigned nowhere else.
DecodeResultOf(outcome) ==
    [status |-> CASE outcome = "picture" -> "SUCCESS"
                  [] outcome = "need_more" -> "NEED_MORE_DATA"
                  [] outcome = "invalid" -> "ERROR_INVALID_DATA"
                  [] OTHER -> "ERROR_DECODER_FAILURE",
     frame |-> 0]

\* The decode loop's test for handing a frame to the callback.
HasFrame(result) == result.status = "SUCCESS" /\ result.frame # 0

\* DecodeResult result = decoder->decode(packet.data.data(), packet.data.size());
\* the decoder keeps the picture for getFrame() (frameAvailable_ / frameQueue_).
\* An exception is caught and logged by the loop.
DecDecode(w) ==
    /\ ~crashed
    /\ th[w].pc = "dl_decode"
    /\ \E outcome \in DecodeOutcomes :
          IF outcome = "throws"
          THEN /\ Goto(w, "dl_cond")
               /\ UNCHANGED sess
          ELSE /\ th' = [th EXCEPT ![w].pc = "dl_result", ![w].res = DecodeResultOf(outcome)]
               /\ sess' = [sess EXCEPT ![th[w].obj].frameReady = @ \/ outcome = "picture"]
    /\ UNCHANGED <<calls, crashed, qvars, mvars>>

\* if (result.status == DecodeStatus::SUCCESS && result.frame)
\*     onFrameDecoded(cameraId, result.frame);      -- the callback is invoked once
DecResult(w) ==
    /\ ~crashed
    /\ th[w].pc = "dl_result"
    /\ IF HasFrame(th[w].res)
       THEN sess' = [sess EXCEPT ![th[w].obj].delivered = @ + 1]
       ELSE UNCHANGED sess
    /\ th' = [th EXCEPT ![w].pc = "dl_cond", ![w].res = NoResult]
    /\ UNCHANGED <<calls, crashed, qvars, mvars>>

\* An RtspClient before connect(): state_ DISCONNECTED, no stream (formatCtx_
\* null), no reconnection task.  bg is the position of the attemptReconnect
\* thread, tries the attempts it has made, waited whether it has slept since its
\* last attempt; errors, ops count read errors and caller operations; disc tells
\* that disconnect() was the caller's last operation.  av is what av_read_frame
\* returned in the last receiveNalUnits call ("none": it was not reached) and ret
\* is what that call returned.
NoRtsp == [state |-> "DISCONNECTED", open |-> FALSE, auto |-> FALSE, max |-> 0,
           bg |-> "none",
           tries |-> 0, waited |-> FALSE, errors |-> 0, ops |-> 0, disc |-> FALSE,
           reconnectCount |-> 0, av |-> "none", ret |-> 0]

\* StreamManager after initialize(): no camera, both pools idle.
ManagerInit ==
    /\ cameras_ = [id \in Ids |-> 0]
    /\ lockW = "none"
    /\ lockR = {}
    /\ netTasks = <<>>
    /\ decTasks = <<>>
    /\ assigned = {}
    /\ running_ = TRUE
    /\ nObjs = 0
    /\ faults = 0
    /\ callbackMutex_ = "none"
    /\ frameCallback_ = 0
    /\ mgrAlive = TRUE
    /\ rtsp = NoRtsp

(***************************************************************************)
(* Part 4: the frame callback.  setFrameCallback is called by operator     *)
(* threads, onFrameDecoded by decode workers; the callback itself is user  *)
(* code that returns or calls setFrameCallback.                            *)
(***************************************************************************)
\* Non-empty callbacks that can be installed (0 is the empty std::function).
Callbacks == {1, 2}

CallbackWorkers == {"dec1", "dec2"}

\* An operator calls setFrameCallback(cb).
CallSetFrameCallback(t, cb) ==
    /\ ~crashed
    /\ th[t].pc = "idle"
    /\ calls < MaxCalls
    /\ calls' = calls + 1
    /\ th' = [th EXCEPT ![t] = [IdleThread EXCEPT !.pc = "set_lock", !.arg = cb,
                                    !.rets = <<"idle">>]]
    /\ UNCHANGED <<sess, crashed, qvars, mvars>>

\* std::lock_guard<std::mutex> lock(callbackMutex_);   (setFrameCallback)
SetLock(t) ==
    /\ ~crashed
    /\ th[t].pc = "set_lock"
    /\ callbackMutex_ = "none"
    /\ callbackMutex_' = t
    /\ Goto(t, "set_store")
    /\ UNCHANGED <<sess, calls, crashed, qvars, cameras_, lockW, lockR, netTasks, decTasks,
                   assigned, running_, nObjs, faults, frameCallback_, mgrAlive, rtsp, uvars>>

\* The thread locks the std::mutex it already owns: it blocks for ever (no step)
\* or the process dies.
SetRelock(t) ==
    /\ ~crashed
    /\ th[t].pc = "set_lock"
    /\ callbackMutex_ = t
    /\ crashed' = TRUE
    /\ UNCHANGED <<sess, th, calls, qvars, mvars>>

\* frameCallback_ = std::move(callback);  the lock is dropped on return
SetStore(t) ==
    /\ ~crashed
    /\ th[t].pc = "set_store"
    /\ frameCallback_' = th[t].arg
    /\ callbackMutex_' = "none"
    /\ Ret(t, FALSE)
    /\ UNCHANGED <<sess, calls, crashed, qvars, cameras_, lockW, lockR, netTasks, decTasks,
                   assigned, running_, nObjs, faults, mgrAlive, rtsp, uvars>>

\* A decode worker calls onFrameDecoded(cameraId, frame) for camera id.
CallOnFrameDecoded(w, id) ==
    /\ ~crashed
    /\ th[w].pc = "idle"
    /\ calls < MaxCalls
    /\ calls' = calls + 1
    /\ th' = [th EXCEPT ![w] = [IdleThread EXCEPT !.pc = "cb_lock", !.id = id,
                                    !.rets = <<"idle">>]]
    /\ UNCHANGED <<sess, crashed, qvars, mvars>>

\* std::lock_guard<std::mutex> lock(callbackMutex_);   (onFrameDecoded)
OnFrameLock(w) ==
    /\ ~crashed
    /\ th[w].pc = "cb_lock"
    /\ callbackMutex_ = "none"
    /\ callbackMutex_' = w
    /\ Goto(w, "cb_test")
    /\ UNCHANGED <<sess, calls, crashed, qvars, cameras_, lockW, lockR, netTasks, decTasks,
                   assigned, running_, nObjs, faults, frameCallback_, mgrAlive, rtsp, uvars>>

\* if (frameCallback_) frameCallback_(cameraId, frame);  -- the guard is still alive
OnFrameTest(w) ==
    /\ ~crashed
    /\ th[w].pc = "cb_test"
    /\ IF frameCallback_ # 0
       THEN /\ th' = [th EXCEPT ![w].pc = "cb_run", ![w].arg = frameCallback_]
            /\ UNCHANGED callbackMutex_
       ELSE /\ callbackMutex_' = "none"
            /\ Ret(w, FALSE)
    /\ UNCHANGED <<sess, calls, crashed, qvars, cameras_, lockW, lockR, netTasks, decTasks,
                   assigned, running_, nObjs, faults, frameCallback_, mgrAlive, rtsp, uvars>>

\* The callback returns; onFrameDecoded returns and its lock_guard unlocks.
CallbackReturns(w) ==
    /\ ~crashed
    /\ th[w].pc = "cb_run"
    /\ callbackMutex_' = "none"
    /\ sess' = [sess EXCEPT ![th[w].id].delivered = @ + 1]
    /\ Ret(w, FALSE)
    /\ UNCHANGED <<calls, crashed, qvars, cameras_, lockW, lockR, netTasks, decTasks,
                   assigned, running_, nObjs, faults, frameCallback_, mgrAlive, rtsp, uvars>>

\* The callback calls setFrameCallback(cb) on the manager.
CallbackSets(w, cb) ==
    /\ ~crashed
    /\ th[w].pc = "cb_run"
    /\ calls < MaxCalls
    /\ calls' = calls + 1
    /\ th' = [th EXCEPT ![w].pc = "set_lock", ![w].arg = cb,
                        ![w].rets = <<"cb_run">> \o @]
    /\ UNCHANGED <<sess, crashed, qvars, mvars>>

\* C14: the frame callback is invoked with no manager lock held: a worker that is
\* inside the callback does not own callbackMutex_.
C14_CallbackRunsUnlocked ==
    \A w \in CallbackWorkers : th[w].pc = "cb_run" => callbackMutex_ # w

(***************************************************************************)
(* Part 5: shutdown.  StreamPipeline::shutdown runs StreamManager::shutdown *)
(* (running_ = false, stopAll, cameras_.clear()), destroys the manager,    *)
(* and only then shuts the two pools down, waiting for their tasks.        *)
(***************************************************************************)
\* addCamera called while the pipeline is up.
AddBeforeShutdown(t, id) == running_ /\ mgrAlive /\ AddCheck(t, id)

\* StreamPipeline::shutdown -> StreamManager::shutdown: running_ = false; then
\* stopAll() takes the shared lock.
ShutdownBegin(t) ==
    /\ ~crashed
    /\ \A u \in Operators : th[u].pc = "idle"
    /\ running_
    /\ mgrAlive
    /\ CanLockShared
    /\ running_' = FALSE
    /\ lockR' = lockR \cup {t}
    /\ th' = [th EXCEPT ![t] = [IdleThread EXCEPT !.pc = "sa_next", !.rets = <<"idle">>,
                                    !.todo = {id \in Ids : cameras_[id] # 0}]]
    /\ UNCHANGED <<sess, calls, crashed, qvars, cameras_, lockW, netTasks, decTasks,
                   assigned, nObjs, faults, xvars>>

\* stopAll(): for (auto& [id, camera] : cameras_) camera->stop();  then the shared
\* lock is dropped.
StopAllNext(t) ==
    /\ ~crashed
    /\ th[t].pc = "sa_next"
    /\ IF th[t].todo = {}
       THEN /\ lockR' = lockR \ {t}
            /\ Goto(t, "sd_clear")
       ELSE /\ UNCHANGED lockR
            /\ \E id \in th[t].todo :
                  th' = [th EXCEPT ![t].todo = @ \ {id}, ![t].obj = cameras_[id],
                                   ![t].pc = "stop_check", ![t].rets = <<"sa_next">> \o @]
    /\ UNCHANGED <<sess, calls, crashed, qvars, cameras_, lockW, netTasks, decTasks,
                   assigned, running_, nObjs, faults, xvars>>

\* unique_lock; cameras_.clear(): each entry is erased and its CameraStream
\* destroyed (~CameraStream calls stop()); after the last one the lock is dropped.
ShutdownClear(t) ==
    /\ ~crashed
    /\ th[t].pc = "sd_clear"
    /\ lockW \in {"none", t}
    /\ lockW = "none" => lockR = {}
    /\ IF \E id \in Ids : cameras_[id] # 0
       THEN \E id \in Ids :
               /\ cameras_[id] # 0
               /\ cameras_' = [cameras_ EXCEPT ![id] = 0]
               /\ lockW' = t
               /\ th' = [th EXCEPT ![t].obj = cameras_[id], ![t].pc = "stop_check",
                                   ![t].rets = <<"sd_free">> \o @]
       ELSE /\ lockW' = "none"
            /\ Goto(t, "sd_reset")
            /\ UNCHANGED cameras_
    /\ UNCHANGED <<sess, calls, crashed, qvars, lockR, netTasks, decTasks, assigned,
                   running_, nObjs, faults, xvars>>

\* The erased camera's storage is released.
ShutdownFree(t) ==
    /\ ~crashed
    /\ th[t].pc = "sd_free"
    /\ sess' = Destroyed(th[t].obj)
    /\ Goto(t, "sd_clear")
    /\ UNCHANGED <<calls, crashed, qvars, mvars>>

\* streamManager_.reset(): the StreamManager is destroyed.
ManagerReset(t) ==
    /\ ~crashed
    /\ th[t].pc = "sd_reset"
    /\ mgrAlive' = FALSE
    /\ Goto(t, "sd_join")
    /\ UNCHANGED <<sess, calls, crashed, qvars, cameras_, lockW, lockR, netTasks, decTasks,
                   assigned, running_, nObjs, faults, callbackMutex_, frameCallback_, rtsp, uvars>>

\* decodePool_->shutdown(true); networkPool_->shutdown(true): the workers run the
\* tasks still queued and are joined.
PoolsJoined(t) ==
    /\ ~crashed
    /\ th[t].pc = "sd_join"
    /\ netTasks = <<>>
    /\ decTasks = <<>>
    /\ \A w \in NetWorkers \cup DecWorkers : th[w].pc = "idle"
    /\ Ret(t, FALSE)
    /\ UNCHANGED <<sess, calls, crashed, qvars, mvars>>

\* Places where a task reads a member of the StreamManager it captured as this:
\* getCamera (cameras_, camerasMutex_) and the loop test (running_).
ManagerReads == {"rl_get", "dl_get", "rl_cond", "dl_cond"}

\* The task dies on a read through the pointer to the destroyed StreamManager.
ManagerCrash(w) ==
    /\ ~crashed
    /\ th[w].pc \in ManagerReads
    /\ ~mgrAlive
    /\ crashed' = TRUE
    /\ UNCHANGED <<sess, th, calls, qvars, mvars>>

(***************************************************************************)
(* Part 6: one RtspClient.  Its caller calls receiveNalUnits, disconnect   *)
(* and connect; a read error with autoReconnect starts a detached thread   *)
(* running attemptReconnect.                                               *)
(***************************************************************************)
\* Everything but the RtspClient.
nonRtsp == <<qvars, svars, cameras_, lockW, lockR, netTasks, decTasks, assigned, running_,
             nObjs, faults, callbackMutex_, frameCallback_, mgrAlive, uvars>>

\* The loop test of attemptReconnect, accepting one attempt too many.
AttemptsLeftOneMore(attempt) == attempt <= rtsp.max

\* attempt < config_.maxReconnectAttempts
AttemptsLeft(attempt) == attempt < rtsp.max

\* receiveNalUnits: av_read_frame fails with an error other than EAGAIN.
\* autoReconnect: state_ = RECONNECTING and std::thread(attemptReconnect).detach();
\* otherwise state_ = ERROR.  (A client that is not CONNECTED returns 0 at once.)
RtspReadError ==
    /\ rtsp.state = "CONNECTED"
    /\ rtsp.open
    /\ rtsp.bg = "none"
    /\ rtsp.errors < MaxErrors
    /\ rtsp' = IF rtsp.auto
               THEN [rtsp EXCEPT !.errors = @ + 1, !.state = "RECONNECTING",
                                 !.bg = "loop", !.tries = 0, !.waited = FALSE,
                                 !.av = "EIO", !.ret = 0]
               ELSE [rtsp EXCEPT !.errors = @ + 1, !.state = "ERROR",
                                 !.av = "EIO", !.ret = 0]
    /\ UNCHANGED nonRtsp

\* receiveNalUnits: if (!formatCtx_ || state_ != CONNECTED) return 0;
RtspNotConnected ==
    /\ ~(rtsp.open /\ rtsp.state = "CONNECTED")
    /\ rtsp' = [rtsp EXCEPT !.av = "none", !.ret = 0]
    /\ UNCHANGED nonRtsp

\* receiveNalUnits: av_read_frame returns AVERROR(EAGAIN), nothing arrived within
\* the timeout: the packet is freed and the call returns 0.
RtspTimeout ==
    /\ rtsp.state = "CONNECTED"
    /\ rtsp.open
    /\ rtsp' = [rtsp EXCEPT !.av = "EAGAIN", !.ret = 0]
    /\ UNCHANGED nonRtsp

\* receiveNalUnits: av_read_frame delivers a packet; parsePacket counts the NAL
\* units it finds in it (none when the packet holds no start code) and the call
\* returns that count.
RtspUnits ==
    /\ rtsp.state = "CONNECTED"
    /\ rtsp.open
    /\ \E nalCount \in 0 .. MaxUnits :
          rtsp' = [rtsp EXCEPT !.av = "ok", !.ret = nalCount]
    /\ UNCHANGED nonRtsp

\* One call of receiveNalUnits, whatever its outcome.
ReceiveNalUnits == RtspReadError \/ RtspNotConnected \/ RtspTimeout \/ RtspUnits

\* for (attempt = 0; attempt < maxReconnectAttempts; attempt++) { sleep_for(delay);
AttemptSleep ==
    /\ rtsp.bg = "loop"
    /\ rtsp' = IF AttemptsLeft(rtsp.tries)
               THEN [rtsp EXCEPT !.bg = "open", !.waited = TRUE]
               ELSE [rtsp EXCEPT !.bg = "failed"]
    /\ UNCHANGED nonRtsp

\* closeStream(); if (openStream(config_.url)) ...
AttemptOpen ==
    /\ rtsp.bg = "open"
    /\ \E opened \in BOOLEAN :
          rtsp' = [rtsp EXCEPT !.open = opened, !.tries = @ + 1, !.waited = FALSE,
                               !.bg = IF opened THEN "opened" ELSE "loop"]
    /\ UNCHANGED nonRtsp

\* lock; state_ = CONNECTED; stats_.reconnectCount++; return true;
AttemptConnected ==
    /\ rtsp.bg = "opened"
    /\ rtsp' = [rtsp EXCEPT !.state = "CONNECTED", !.reconnectCount = @ + 1, !.bg = "none"]
    /\ UNCHANGED nonRtsp

\* after the loop: lock; state_ = ERROR; return false;
AttemptsExhausted ==
    /\ rtsp.bg = "failed"
    /\ rtsp' = [rtsp EXCEPT !.state = "ERROR", !.bg = "none"]
    /\ UNCHANGED nonRtsp

\* disconnect(): lock; stopReceiving(); closeStream(); state_ = DISCONNECTED;
RtspDisconnect ==
    /\ rtsp.ops < MaxCalls
    /\ rtsp' = [rtsp EXCEPT !.ops = @ + 1, !.open = FALSE, !.state = "DISCONNECTED",
                            !.disc = TRUE]
    /\ UNCHANGED nonRtsp

\* connect(config): lock; already CONNECTED: return true; else CONNECTING, then
\* openStream: CONNECTED or ERROR.
RtspConnect ==
    /\ rtsp.ops < MaxCalls
    /\ \E opened \in BOOLEAN :
          rtsp' = IF rtsp.state = "CONNECTED"
                  THEN [rtsp EXCEPT !.ops = @ + 1, !.disc = FALSE]
                  ELSE [rtsp EXCEPT !.ops = @ + 1, !.disc = FALSE, !.open = opened,
                                    !.state = IF opened THEN "CONNECTED" ELSE "ERROR"]
    /\ UNCHANGED nonRtsp

\* The attemptReconnect thread takes a step.
BackgroundNext ==
    AttemptSleep \/ AttemptOpen \/ AttemptConnected \/ AttemptsExhausted

\* A connected RtspClient with either setting of autoReconnect and some
\* maxReconnectAttempts.
RtspInit ==
    \E autoReconnect \in BOOLEAN, attempts \in 0 .. MaxReconnectAttempts :
        rtsp = [NoRtsp EXCEPT !.state = "CONNECTED", !.open = TRUE, !.auto = autoReconnect,
                              !.max = attempts]

\* C19: disconnect cancels a background reconnection: while disconnect was the
\* caller's last operation, the state is Disconnected and the stream is closed.
C19_DisconnectCancelsReconnect ==
    rtsp.disc => (rtsp.state = "DISCONNECTED" /\ ~rtsp.open)

\* C21: receiveNalUnits tells a timeout from a failure by its return value: a
\* call in which nothing arrived within the timeout returns 0 and leaves the
\* session Connected, and a call whose read fails unrecoverably returns a
\* negative value.
C21_ReceiveTellsTimeoutFromFailure ==
    [][ReceiveNalUnits =>
          /\ rtsp'.av = "EAGAIN" => (rtsp'.ret = 0 /\ rtsp'.state = "CONNECTED")
          /\ rtsp'.av = "EIO" => rtsp'.ret < 0]_vars

\* The attemptReconnect thread makes a connection attempt in this step.
AttemptMade == rtsp'.tries = rtsp.tries + 1

\* C20: after a read error with autoReconnect the client is Reconnecting and makes
\* at most maxReconnectAttempts attempts, each after a wait; it becomes Connected
\* only by an attempt that succeeded, Error only when every attempt has failed,
\* and it leaves Reconnecting eventually.
C20_ReconnectBounded ==
    /\ [](rtsp.tries <= rtsp.max)
    /\ [][AttemptMade => rtsp.waited]_vars
    /\ [][(rtsp.state = "RECONNECTING" /\ rtsp'.state = "CONNECTED")
             => (rtsp.bg = "opened" /\ rtsp.open)]_vars
    /\ [][(rtsp.state = "RECONNECTING" /\ rtsp'.state = "ERROR")
             => (rtsp.tries = rtsp.max /\ rtsp.bg = "failed")]_vars
    /\ (rtsp.state = "RECONNECTING") ~> (rtsp.state \in {"CONNECTED", "ERROR"})

\* C20 witness: the client is Connected again by its last permitted attempt, the
\* earlier ones having failed.
C20_Witness ==
    /\ rtsp.state = "CONNECTED"
    /\ rtsp.reconnectCount >= 1
    /\ rtsp.tries = rtsp.max
    /\ rtsp.max >= 2

(***************************************************************************)
(* Part 7: GPUMemoryPool.  Every operation holds statsMutex_ from its      *)
(* first to its last statement; totalAllocatedBytes_ and                   *)
(* peakAllocatedBytes_ are size_t, modelled SizeBits wide.                 *)
(***************************************************************************)
GpuIds == 1 .. NumGpuIds

GpuThreads == {"g1", "g2"}

\* size_t arithmetic wraps at 2^SizeBits.
SizeModulus == 2 ^ SizeBits

\* Byte counts a caller passes: small ones and the largest size_t.
GpuBytes == {1, 2, SizeModulus - 1}

\* Surface counts a caller passes.
GpuSurfaces == {1, 2}

\* std::map::find / end(): the map holds an entry for the id.
Has(map, id) == \E e \in map : e[1] = id

\* it->second
At(map, id) == (CHOOSE e \in map : e[1] = id)[2]

\* map[id] = value
Put(map, id, value) == {e \in map : e[1] # id} \cup {<<id, value>>}

\* map.erase(id)
Erase(map, id) == {e \in map : e[1] # id}

\* The sum of the per-camera byte entries.
RECURSIVE SumBytes(_)
SumBytes(map) ==
    IF map = {} THEN 0
    ELSE LET e == CHOOSE x \in map : TRUE
         IN  e[2] + SumBytes(map \ {e})

\* A GPUMemoryPool after its constructor.  maxTotal and traffic are history:
\* the largest value totalAllocatedBytes_ has held, and the number of calls made.
NewGpu == [perCameraMemory_ |-> {}, perCameraSurfaces_ |-> {},
           totalAllocatedBytes_ |-> 0, peakAllocatedBytes_ |-> 0,
           statsMutex_ |-> "none", maxTotal |-> 0, traffic |-> 0,
           stats |-> [totalAllocatedBytes |-> 0, peakAllocatedBytes |-> 0]]

GpuIdle == [pc |-> "idle", op |-> "none", cameraId |-> 0, bytes |-> 0, surfaceCount |-> 0,
            newTotal |-> 0]

GpuInit ==
    /\ gpu = NewGpu
    /\ gth = [t \in GpuThreads |-> GpuIdle]

GpuUnused == GpuInit

Larger(a, b) == IF a > b THEN a ELSE b

\* The pipeline: queue, cameras, manager and RtspClient.
core == <<qvars, svars, cameras_, lockW, lockR, netTasks, decTasks, assigned,
          running_, nObjs, faults, callbackMutex_, frameCallback_, mgrAlive, rtsp>>

\* What a step of the GPUMemoryPool leaves alone.
nonGpu == <<core, pool, net, qcam, dcd, bsp, fleet>>

\* A thread calls registerAllocation, unregisterAllocation or updateAllocation.
GpuCall(t, op, id, bytes, surfaceCount) ==
    /\ gth[t].pc = "idle"
    /\ gpu.traffic < MaxGpuOps
    /\ gth' = [gth EXCEPT ![t] = [pc |-> "lock", op |-> op, cameraId |-> id,
                                  bytes |-> IF op = "unregister" THEN 0 ELSE bytes,
                                  surfaceCount |-> IF op = "unregister" THEN 0 ELSE surfaceCount,
                                  newTotal |-> 0]]
    /\ gpu' = [gpu EXCEPT !.traffic = @ + 1]
    /\ UNCHANGED nonGpu

\* std::lock_guard<std::mutex> lock(statsMutex_);
GpuLock(t) ==
    /\ gth[t].pc = "lock"
    /\ gpu.statsMutex_ = "none"
    /\ gpu' = [gpu EXCEPT !.statsMutex_ = t]
    /\ gth' = [gth EXCEPT ![t].pc = gth[t].op]
    /\ UNCHANGED nonGpu

\* The peak test of registerAllocation and updateAllocation, never taken.
ExceedsPeakNever(newTotal, peak) == FALSE

\* if (newTotal > peak)
ExceedsPeak(newTotal, peak) == newTotal > peak

\* registerAllocation: perCameraMemory_[cameraId] = bytes; perCameraSurfaces_[cameraId]
\* = surfaceCount; newTotal = oldTotal + bytes; totalAllocatedBytes_.store(newTotal);
RegisterStore(t) ==
    /\ gth[t].pc = "register"
    /\ LET newTotal == (gpu.totalAllocatedBytes_ + gth[t].bytes) % SizeModulus
       IN  /\ gpu' = [gpu EXCEPT
                        !.perCameraMemory_ = Put(@, gth[t].cameraId, gth[t].bytes),
                        !.perCameraSurfaces_ = Put(@, gth[t].cameraId, gth[t].surfaceCount),
                        !.totalAllocatedBytes_ = newTotal,
                        !.maxTotal = Larger(@, newTotal)]
           /\ gth' = [gth EXCEPT ![t].pc = "peak", ![t].newTotal = newTotal]
    /\ UNCHANGED nonGpu

\* peak = peakAllocatedBytes_.load(); if (newTotal > peak) peakAllocatedBytes_.store(
\* newTotal); checkMemoryLimits(); and the lock_guard releases the mutex.
StorePeak(t) ==
    /\ gth[t].pc = "peak"
    /\ gpu' = [gpu EXCEPT
                 !.peakAllocatedBytes_ =
                     IF ExceedsPeak(gth[t].newTotal, @) THEN gth[t].newTotal ELSE @,
                 !.statsMutex_ = "none"]
    /\ gth' = [gth EXCEPT ![t] = GpuIdle]
    /\ UNCHANGED nonGpu

\* unregisterAllocation: an entry found is subtracted from the total if the total
\* is at least as large, and erased from both maps; the mutex is released.
Unregister(t) ==
    /\ gth[t].pc = "unregister"
    /\ LET id == gth[t].cameraId
           found == Has(gpu.perCameraMemory_, id)
           bytes == At(gpu.perCameraMemory_, id)
           oldTotal == gpu.totalAllocatedBytes_
       IN  gpu' = IF found
                  THEN [gpu EXCEPT
                          !.totalAllocatedBytes_ =
                              IF oldTotal >= bytes THEN oldTotal - bytes ELSE oldTotal,
                          !.perCameraMemory_ = Erase(@, id),
                          !.perCameraSurfaces_ = Erase(@, id),
                          !.statsMutex_ = "none"]
                  ELSE [gpu EXCEPT !.statsMutex_ = "none"]
    /\ gth' = [gth EXCEPT ![t] = GpuIdle]
    /\ UNCHANGED nonGpu

\* updateAllocation, entry found: newTotal = oldTotal - oldBytes + newBytes is
\* stored, then the two per-camera entries.
UpdateFound(t) ==
    /\ gth[t].pc = "update"
    /\ Has(gpu.perCameraMemory_, gth[t].cameraId)
    /\ LET oldBytes == At(gpu.perCameraMemory_, gth[t].cameraId)
           newTotal == (gpu.totalAllocatedBytes_ - oldBytes + gth[t].bytes) % SizeModulus
       IN  /\ gpu' = [gpu EXCEPT
                        !.totalAllocatedBytes_ = newTotal,
                        !.perCameraMemory_ = Put(@, gth[t].cameraId, gth[t].bytes),
                        !.perCameraSurfaces_ = Put(@, gth[t].cameraId, gth[t].surfaceCount),
                        !.maxTotal = Larger(@, newTotal)]
           /\ gth' = [gth EXCEPT ![t].pc = "peak", ![t].newTotal = newTotal]
    /\ UNCHANGED nonGpu

\* updateAllocation, entry not found: registerAllocation is called with
\* statsMutex_ still held, and its lock_guard locks the std::mutex the thread
\* already owns.  That is undefined: the thread blocks on itself for ever, or the
\* library reports the deadlock by an exception that leaves updateAllocation.
UpdateNotFound(t) ==
    /\ gth[t].pc = "update"
    /\ ~Has(gpu.perCameraMemory_, gth[t].cameraId)
    /\ \/ /\ gth' = [gth EXCEPT ![t].pc = "blocked"]
          /\ UNCHANGED gpu
       \/ /\ gth' = [gth EXCEPT ![t] = GpuIdle]
          /\ gpu' = [gpu EXCEPT !.statsMutex_ = "none"]
    /\ UNCHANGED nonGpu

\* getStats(): under the mutex, copies the two totals.
GetStats ==
    /\ gpu.statsMutex_ = "none"
    /\ gpu' = [gpu EXCEPT !.stats = [totalAllocatedBytes |-> gpu.totalAllocatedBytes_,
                                     peakAllocatedBytes |-> gpu.peakAllocatedBytes_]]
    /\ UNCHANGED <<gth, nonGpu>>

\* C22: whenever no call is inside the pool, totalAllocatedBytes equals the sum
\* of the per-camera byte entries.
C22_TotalIsSumOfEntries ==
    gpu.statsMutex_ = "none" =>
        gpu.totalAllocatedBytes_ = SumBytes(gpu.perCameraMemory_) % SizeModulus

\* C23: the peak never decreases, and outside the calls (where getStats reads
\* it) it is at least every value the total has held so far.
C23_PeakBoundsTotal ==
    /\ [](gpu.statsMutex_ = "none" => gpu.peakAllocatedBytes_ >= gpu.maxTotal)
    /\ [](gpu.stats.peakAllocatedBytes >= gpu.stats.totalAllocatedBytes)
    /\ [][gpu'.peakAllocatedBytes_ >= gpu.peakAllocatedBytes_]_vars

\* C23 witness: the total has dropped below a peak reached earlier, and getStats
\* has read both.
C23_Witness ==
    /\ gpu.statsMutex_ = "none"
    /\ gpu.stats.peakAllocatedBytes > gpu.stats.totalAllocatedBytes
    /\ gpu.stats.peakAllocatedBytes = gpu.maxTotal
    /\ gpu.stats.totalAllocatedBytes = gpu.totalAllocatedBytes_
    /\ gpu.traffic >= 2

\* C36: updateAllocation(cameraId, newBytes, newSurfaceCount) for an id that has no
\* entry terminates and does what registerAllocation does: the step that leaves
\* the lookup creates the entry with newBytes and adds newBytes to the total, and
\* the calling thread goes on to the peak update rather than blocking.
C36_UpdateOfUnknownRegisters ==
    [][\A t \in GpuThreads :
          (/\ gth[t].pc = "update"
           /\ ~Has(gpu.perCameraMemory_, gth[t].cameraId)
           /\ gth'[t] # gth[t])
          => /\ gth'[t].pc = "peak"
             /\ Has(gpu'.perCameraMemory_, gth[t].cameraId)
             /\ At(gpu'.perCameraMemory_, gth[t].cameraId) = gth[t].bytes
             /\ gpu'.totalAllocatedBytes_ =
                    (gpu.totalAllocatedBytes_ + gth[t].bytes) % SizeModulus]_vars

\* C40: totalAllocatedBytes never wraps below zero.  Between calls the total is at
\* least the bytes of every registered camera; updateAllocation never subtracts
\* more than the total and unregisterAllocation never has to skip its subtraction.
C40_TotalCoversEveryEntry ==
    /\ gpu.statsMutex_ = "none" =>
           \A e \in gpu.perCameraMemory_ : gpu.totalAllocatedBytes_ >= e[2]
    /\ \A t \in GpuThreads :
           (/\ gth[t].pc \in {"unregister", "update"}
            /\ Has(gpu.perCameraMemory_, gth[t].cameraId))
           => gpu.totalAllocatedBytes_ >= At(gpu.perCameraMemory_, gth[t].cameraId)

(***************************************************************************)
(* Part 8: one thread pool on its own, a ThreadPool or a DecodeThreadPool: *)
(* callers submit tasks, workers run them, one caller shuts the pool down. *)
(***************************************************************************)
PoolKinds == {"ThreadPool", "DecodeThreadPool"}

PoolWorkers == {"w1", "w2"}

Tasks == 1 .. MaxTasks

\* A pool after its constructor: running_ true, no task, every worker thread
\* started.  A ThreadPool worker goes straight to its loop; a DecodeThreadPool
\* worker first calls initializeCudaContext.  ran counts the executions of each
\* task; offered is the number of submit calls made; refused are the tasks whose
\* submit threw; before and taken are the tasks accepted and the tasks dequeued
\* when shutdown took the lock; threw tells that the last submit threw.
NewPool(kind) ==
    [kind |-> kind, running_ |-> TRUE, tasks_ |-> <<>>, tasksSubmitted_ |-> 0,
     wpc |-> [w \in PoolWorkers |-> IF kind = "ThreadPool" THEN "wait" ELSE "init"],
     wtask |-> [w \in PoolWorkers |-> 0],
     ran |-> [k \in Tasks |-> 0], offered |-> 0, refused |-> {}, accepted |-> {},
     dequeued |-> {}, threw |-> FALSE,
     sd |-> "no", waitForTasks |-> FALSE, before |-> {}, taken |-> {}]

PoolInit == \E kind \in PoolKinds : pool = NewPool(kind)

PoolUnused == pool = NewPool("ThreadPool")

nonPool == <<core, gpu, gth, net, qcam, dcd, bsp, fleet>>

\* The stopped test of submit and submitDecodeTask, never true.
PoolStoppedNever == FALSE

\* if (!running_)
PoolStopped == ~pool.running_

\* ThreadPool::submit / DecodeThreadPool::submitDecodeTask: under queueMutex_, a
\* stopped pool throws std::runtime_error; otherwise the task is pushed (and
\* ThreadPool counts it in tasksSubmitted_), then notify_one.
Submit ==
    /\ pool.offered < MaxTasks
    /\ LET task == pool.offered + 1
       IN  pool' = IF PoolStopped
                   THEN [pool EXCEPT !.offered = task, !.refused = @ \cup {task},
                                     !.threw = TRUE]
                   ELSE [pool EXCEPT !.offered = task, !.accepted = @ \cup {task},
                                     !.threw = FALSE,
                                     !.tasks_ = Append(@, task),
                                     !.tasksSubmitted_ =
                                         IF pool.kind = "ThreadPool" THEN @ + 1 ELSE @]
    /\ UNCHANGED nonPool

\* decodeWorkerLoop: if (!initializeCudaContext(worker)) return;  The context is
\* created, or (in a build with CUDA) its creation fails and the worker thread
\* ends before its loop.
WorkerInit(w) ==
    /\ pool.wpc[w] = "init"
    /\ \E created \in BOOLEAN :
          pool' = [pool EXCEPT !.wpc[w] = IF created THEN "wait" ELSE "done"]
    /\ UNCHANGED nonPool

\* workerLoop / decodeWorkerLoop: condition_.wait until !running_ or a task is
\* queued; break if stopped and empty; otherwise take the front task.
WorkerTake(w) ==
    /\ pool.wpc[w] = "wait"
    /\ ~pool.running_ \/ pool.tasks_ # <<>>
    /\ pool' = IF pool.tasks_ = <<>>
               THEN [pool EXCEPT !.wpc[w] = "done"]
               ELSE [pool EXCEPT !.wpc[w] = "run", !.wtask[w] = Head(pool.tasks_),
                                 !.tasks_ = Tail(@),
                                 !.dequeued = @ \cup {Head(pool.tasks_)}]
    /\ UNCHANGED nonPool

\* if (task) { task(); ... }: the worker runs the task it took.
WorkerRun(w) ==
    /\ pool.wpc[w] = "run"
    /\ pool' = [pool EXCEPT !.wpc[w] = "wait", !.ran[pool.wtask[w]] = @ + 1,
                            !.wtask[w] = 0]
    /\ UNCHANGED nonPool

\* shutdown(waitForTasks): under queueMutex_, running_ = false and, without
\* waitForTasks, the queue is swapped with an empty one; then notify_all.
ShutdownCall(waitForTasks) ==
    /\ pool.sd = "no"
    /\ pool' = [pool EXCEPT !.running_ = FALSE,
                            !.tasks_ = IF waitForTasks THEN @ ELSE <<>>,
                            !.sd = "joining", !.waitForTasks = waitForTasks,
                            !.before = pool.accepted, !.taken = pool.dequeued]
    /\ UNCHANGED nonPool

\* shutdown: every worker thread has been joined; the call returns.
ShutdownJoined ==
    /\ pool.sd = "joining"
    /\ \A w \in PoolWorkers : pool.wpc[w] = "done"
    /\ pool' = [pool EXCEPT !.sd = "returned"]
    /\ UNCHANGED nonPool

\* C24: a submit made after shutdown fails: it throws, leaves the queue and the
\* submitted-task counter as they were, and its task is never executed.
C24_SubmitAfterShutdownFails ==
    /\ [][(Submit /\ ~pool.running_) =>
             /\ pool'.threw
             /\ pool'.tasks_ = pool.tasks_
             /\ pool'.tasksSubmitted_ = pool.tasksSubmitted_]_vars
    /\ [](\A task \in pool.refused : pool.ran[task] = 0 /\ task \notin pool.dequeued)

\* C24 witness: shutdown has returned after running an accepted task, and a
\* later submit was refused.
C24_Witness ==
    /\ pool.sd = "returned"
    /\ pool.threw
    /\ pool.refused # {}
    /\ \E task \in pool.accepted : pool.ran[task] = 1

\* C25: when shutdown(waitForTasks) has returned no worker thread is alive, and
\* the executed tasks are every task submitted before the call, each once, with
\* waitForTasks, and exactly the tasks already dequeued at the call without it.
C25_ShutdownRunsWhatItPromises ==
    pool.sd = "returned" =>
        /\ \A w \in PoolWorkers : pool.wpc[w] = "done"
        /\ \A task \in Tasks :
              pool.ran[task] = IF task \in (IF pool.waitForTasks THEN pool.before
                                            ELSE pool.taken)
                               THEN 1 ELSE 0

(***************************************************************************)
(* Part 9: NetworkThreadPool::assignCamera and unassignCamera, each under  *)
(* assignmentMutex_ from start to end.                                     *)
(***************************************************************************)
NetIds == 1 .. NumNetIds

\* A NetworkThreadPool(numThreads) after its constructor.  ret is what the last
\* assignCamera returned, fresh the number of ids newly assigned so far, traffic
\* the number of calls made.
NewNet(numThreads) ==
    [numThreads_ |-> numThreads, cameraAssignments_ |-> {}, nextThread_ |-> 0,
     ret |-> 0, fresh |-> 0, traffic |-> 0]

NetInit == \E numThreads \in 1 .. MaxThreads : net = NewNet(numThreads)

NetUnused == net = NewNet(1)

nonNet == <<core, gpu, gth, pool, qcam, dcd, bsp, fleet>>

\* The lookup of assignCamera, never finding the id.
AlreadyAssignedNever(id) == FALSE

\* it = cameraAssignments_.find(cameraId); it != cameraAssignments_.end()
AlreadyAssigned(id) == Has(net.cameraAssignments_, id)

\* assignCamera: an id already assigned gets it->second; otherwise threadId =
\* nextThread_.fetch_add(1) % numThreads_ is stored for the id and returned.
AssignCamera(id) ==
    /\ net.traffic < MaxAssigns
    /\ net' = IF AlreadyAssigned(id)
              THEN [net EXCEPT !.traffic = @ + 1, !.ret = At(net.cameraAssignments_, id)]
              ELSE LET threadId == net.nextThread_ % net.numThreads_
                   IN  [net EXCEPT !.traffic = @ + 1, !.ret = threadId,
                                   !.nextThread_ = @ + 1, !.fresh = @ + 1,
                                   !.cameraAssignments_ = Put(@, id, threadId)]
    /\ UNCHANGED nonNet

\* unassignCamera: cameraAssignments_.erase(cameraId)
UnassignCamera(id) ==
    /\ net.traffic < MaxAssigns
    /\ net' = [net EXCEPT !.traffic = @ + 1, !.cameraAssignments_ = Erase(@, id)]
    /\ UNCHANGED nonNet

\* C26: assignCamera gives an id that is already assigned its existing worker
\* and leaves the round-robin counter alone; it gives the k-th newly assigned
\* id worker k mod N; every worker id returned is in 0..N-1.
C26_AssignIsRoundRobin ==
    [][\A id \in NetIds : AssignCamera(id) =>
          /\ net'.ret \in 0 .. net.numThreads_ - 1
          /\ Has(net.cameraAssignments_, id) =>
                /\ net'.ret = At(net.cameraAssignments_, id)
                /\ net'.nextThread_ = net.nextThread_
                /\ net'.cameraAssignments_ = net.cameraAssignments_
          /\ ~Has(net.cameraAssignments_, id) =>
                /\ net'.ret = net.fresh % net.numThreads_
                /\ At(net'.cameraAssignments_, id) = net'.ret]_vars

\* C26 witness: with fewer workers than ids, the round robin has wrapped to
\* worker 0 and an assigned id has been asked for again.
C26_Witness ==
    /\ net.numThreads_ = 2
    /\ net.fresh = 3
    /\ net.traffic = 4
    /\ net.nextThread_ = 3
    /\ net.ret = 0
    /\ \E id \in NetIds : Has(net.cameraAssignments_, id) /\ At(net.cameraAssignments_, id) = 0

\* getCamerasPerThread(threadId): the number of ids assigned to the worker.
getCamerasPerThread(threadId) ==
    Cardinality({e \in net.cameraAssignments_ : e[2] = threadId})

\* C38: after any sequence of assignCamera and unassignCamera calls the numbers
\* of cameras assigned to any two network workers differ by at most one.
C38_AssignmentsEven ==
    \A a, b \in 0 .. net.numThreads_ - 1 :
        getCamerasPerThread(a) - getCamerasPerThread(b) <= 1

(***************************************************************************)
(* Part 10: StreamManager::setQuality on one registered camera.            *)
(***************************************************************************)
Qualities == {"PAUSED", "THUMBNAIL", "GRID_VIEW", "FOCUSED", "FULLSCREEN"}

\* getSurfacePoolSize(quality)
getSurfacePoolSize(quality) ==
    CASE quality = "PAUSED" -> 2
      [] quality = "THUMBNAIL" -> 4
      [] quality = "GRID_VIEW" -> 4
      [] quality = "FOCUSED" -> 8
      [] quality = "FULLSCREEN" -> 12
      [] OTHER -> 4

\* A camera constructed with config.quality and not started: no decoder.
\* decoderQuality and surfaces are the decoder's config_.quality and the size of
\* its surface pool ("none", 0 without a decoder); registered is the number of
\* surfaces the memory accountant holds for the camera; asked is the quality of
\* the last setQuality call made while the camera was running ("none" if none
\* since the last start).
NewQcam(quality) ==
    [quality_ |-> quality, running |-> FALSE, decoderQuality |-> "none", surfaces |-> 0,
     registered |-> 0, asked |-> "none", traffic |-> 0]

QcamInit == \E quality \in Qualities : qcam = NewQcam(quality)

QcamUnused == qcam = NewQcam("GRID_VIEW")

nonQcam == <<core, gpu, gth, pool, net, dcd, bsp, fleet>>

\* start(): initializeDecoder creates the decoder with decoderConfig.quality =
\* quality_, and the decoder allocates getSurfacePoolSize(config_.quality)
\* surfaces.  Nothing calls GPUMemoryPool::registerAllocation.
QcamStart ==
    /\ ~qcam.running
    /\ qcam.traffic < MaxQualityCalls
    /\ qcam' = [qcam EXCEPT !.running = TRUE, !.traffic = @ + 1, !.asked = "none",
                            !.decoderQuality = qcam.quality_,
                            !.surfaces = getSurfacePoolSize(qcam.quality_)]
    /\ UNCHANGED nonQcam

\* stop(): decoder_.reset()
QcamStop ==
    /\ qcam.running
    /\ qcam.traffic < MaxQualityCalls
    /\ qcam' = [qcam EXCEPT !.running = FALSE, !.traffic = @ + 1, !.asked = "none",
                            !.decoderQuality = "none", !.surfaces = 0]
    /\ UNCHANGED nonQcam

\* StreamManager::setQuality(id, quality): the camera is found and
\* CameraStream::setQuality(quality) returns if quality_ == quality and stores
\* quality_ otherwise.  It does nothing else.
SetQuality(quality) ==
    /\ qcam.traffic < MaxQualityCalls
    /\ qcam' = [qcam EXCEPT !.traffic = @ + 1,
                            !.quality_ = quality,
                            !.asked = IF qcam.running THEN quality ELSE @]
    /\ UNCHANGED nonQcam

\* C27: after setQuality(id, q) on a Running camera the decoder's quality is q,
\* its surface pool has the size the table gives for q, and the memory
\* accountant's entry for the camera is that pool.
C27_QualityReachesDecoder ==
    (qcam.running /\ qcam.asked # "none") =>
        /\ qcam.decoderQuality = qcam.asked
        /\ qcam.surfaces = getSurfacePoolSize(qcam.asked)
        /\ qcam.registered = qcam.surfaces

(***************************************************************************)
(* Part 11: one initialized decoder, a CpuDecoder or (in a build with      *)
(* CUDA) an NvdecDecoder, driven by decode, getFrame and reset.  Pictures  *)
(* are numbered by the call that decoded them; 0 stands for no picture and *)
(* for a null frame pointer.                                               *)
(***************************************************************************)
DecoderKinds == {"CPU", "NVDEC"}

\* What the codec library makes of one packet.  CpuDecoder: avcodec_send_packet
\* and avcodec_receive_frame yield a frame, ask for more data (EAGAIN), report the
\* end of the stream, or fail in send or in receive.  NvdecDecoder:
\* cuvidParseVideoData fails, or succeeds and calls handlePictureDisplay for a
\* picture or for none.
PacketOutcomes(kind) ==
    IF kind = "CPU"
    THEN {"frame", "again", "send_eof", "receive_eof", "send_error", "receive_error"}
    ELSE {"picture", "nothing", "parse_error"}

\* An initialized decoder of the quality given (config_.quality).  surfaces_[i] is
\* surface i's inUse flag (the CpuDecoder has no surface pool); frameQueue_ holds
\* [surfaceIndex, picture] entries.  status is what the last decode returned, ret
\* what the last getFrame returned, lastOp the last call made.  streak counts the
\* decode calls that came last with no other call in between and produced a
\* picture each, newest is the last picture produced, gets are the results of the
\* getFrame calls made since the last decode.  dropped counts the pictures for which
\* handlePictureDisplay found every surface in use; lagged tells that some
\* picture was produced while an earlier one had not been retrieved.  enqueued
\* are the pictures pushed on frameQueue_ and returned the pictures handed out by
\* getFrame, both since the last reset.
NewDecoder(kind, quality) ==
    [kind |-> kind, quality |-> quality,
     frameAvailable_ |-> FALSE, avFrame_ |-> 0,
     surfaces_ |-> [i \in 1 .. (IF kind = "NVDEC" THEN getSurfacePoolSize(quality) ELSE 0)
                      |-> FALSE],
     frameQueue_ |-> <<>>,
     status |-> "NONE", ret |-> 0, lastOp |-> "none", traffic |-> 0,
     streak |-> 0, newest |-> 0, gets |-> <<>>, dropped |-> 0, lagged |-> FALSE,
     enqueued |-> <<>>, returned |-> <<>>]

DecoderInit ==
    \E kind \in DecoderKinds, quality \in Qualities : dcd = NewDecoder(kind, quality)

DecoderUnused == dcd = NewDecoder("CPU", "GRID_VIEW")

nonDecoder == <<core, gpu, gth, pool, net, qcam, bsp, fleet>>

\* The decoder holds a picture that getFrame has not handed out.
Pending == IF dcd.kind = "CPU" THEN dcd.frameAvailable_ /\ dcd.avFrame_ # 0
           ELSE dcd.frameQueue_ # <<>>

\* The surfaces handlePictureDisplay may take.
FreeSurfaces == {i \in DOMAIN dcd.surfaces_ : ~dcd.surfaces_[i]}

\* The first surface of the pool that is not in use.
FirstFree == CHOOSE i \in FreeSurfaces : \A j \in FreeSurfaces : i <= j

\* CpuDecoder::decode.  A failing avcodec_send_packet returns before avFrame_ is
\* touched (NEED_MORE_DATA for EAGAIN, SUCCESS for EOF, ERROR_INVALID_DATA
\* otherwise).  avcodec_receive_frame first unreferences avFrame_; with a frame it
\* fills it, frameAvailable_ = true and the status is SUCCESS; EAGAIN gives
\* NEED_MORE_DATA, EOF gives SUCCESS, anything else ERROR_DECODER_FAILURE.
CpuDecode(outcome) ==
    /\ dcd.kind = "CPU"
    /\ dcd.traffic < MaxDecoderOps
    /\ outcome \in PacketOutcomes("CPU")
    /\ LET picture == dcd.traffic + 1
           status == CASE outcome = "frame" -> "SUCCESS"
                       [] outcome \in {"send_eof", "receive_eof"} -> "SUCCESS"
                       [] outcome = "again" -> "NEED_MORE_DATA"
                       [] outcome = "send_error" -> "ERROR_INVALID_DATA"
                       [] OTHER -> "ERROR_DECODER_FAILURE"
           inSend == outcome \in {"send_eof", "send_error"}
       IN  dcd' = [dcd EXCEPT
                     !.traffic = picture, !.lastOp = "decode", !.status = status,
                     !.gets = <<>>,
                     !.frameAvailable_ = IF outcome = "frame" THEN TRUE ELSE @,
                     !.avFrame_ = IF outcome = "frame" THEN picture
                                  ELSE IF inSend THEN @ ELSE 0,
                     !.streak = IF outcome = "frame"
                                THEN (IF dcd.lastOp = "decode" THEN @ + 1 ELSE 1)
                                ELSE 0,
                     !.newest = IF outcome = "frame" THEN picture ELSE @,
                     !.lagged = @ \/ (outcome = "frame" /\ Pending)]
    /\ UNCHANGED nonDecoder

\* NvdecDecoder::decode: ERROR_DECODER_FAILURE if cuvidParseVideoData fails and
\* SUCCESS otherwise.  For a picture the parser calls handlePictureDisplay, which
\* takes the first surface not in use, marks it in use and pushes it on
\* frameQueue_; finding none, it drops the picture.
NvdecDecode(outcome) ==
    /\ dcd.kind = "NVDEC"
    /\ dcd.traffic < MaxDecoderOps
    /\ outcome \in PacketOutcomes("NVDEC")
    /\ LET picture == dcd.traffic + 1
           shown == outcome = "picture"
           stored == shown /\ FreeSurfaces # {}
       IN  dcd' = [dcd EXCEPT
                     !.traffic = picture, !.lastOp = "decode", !.gets = <<>>,
                     !.status = IF outcome = "parse_error" THEN "ERROR_DECODER_FAILURE"
                                ELSE "SUCCESS",
                     !.surfaces_ = IF stored THEN [@ EXCEPT ![FirstFree] = TRUE] ELSE @,
                     !.frameQueue_ = IF stored
                                     THEN Append(@, [surfaceIndex |-> FirstFree,
                                                     picture |-> picture])
                                     ELSE @,
                     !.enqueued = IF stored THEN Append(@, picture) ELSE @,
                     !.dropped = IF shown /\ ~stored THEN @ + 1 ELSE @,
                     !.streak = IF shown
                                THEN (IF dcd.lastOp = "decode" THEN @ + 1 ELSE 1)
                                ELSE 0,
                     !.newest = IF shown THEN picture ELSE @,
                     !.lagged = @ \/ (shown /\ Pending)]
    /\ UNCHANGED nonDecoder

\* The entry getFrame takes, were it the newest of the queue.
FrontNewest(queue) == queue[Len(queue)]

\* frameQueue_.front()
Front(queue) == Head(queue)

\* getFrame.  CpuDecoder: null unless frameAvailable_; a frame whose avFrame_ was
\* unreferenced has no pixel format and gives null with frameAvailable_ kept;
\* otherwise currentFrame_ is filled, frameAvailable_ = false.  NvdecDecoder: null
\* if frameQueue_ is empty; otherwise the oldest entry is popped and, if its
\* surfaceIndex lies inside the pool, mapped (null if not); the inUse flags are
\* left as they are.
GetFrame ==
    /\ dcd.traffic < MaxDecoderOps
    /\ LET frame == IF dcd.kind = "CPU"
                    THEN (IF dcd.frameAvailable_ THEN dcd.avFrame_ ELSE 0)
                    ELSE (IF dcd.frameQueue_ = <<>> THEN 0
                          ELSE IF Front(dcd.frameQueue_).surfaceIndex \in DOMAIN dcd.surfaces_
                          THEN Front(dcd.frameQueue_).picture
                          ELSE 0)
       IN  dcd' = [dcd EXCEPT
                     !.traffic = @ + 1, !.lastOp = "getFrame", !.ret = frame,
                     !.gets = Append(@, frame),
                     !.returned = IF dcd.kind = "NVDEC" /\ frame # 0 THEN Append(@, frame)
                                  ELSE @,
                     !.frameAvailable_ = IF dcd.kind = "CPU" /\ frame # 0 THEN FALSE ELSE @,
                     !.frameQueue_ = IF dcd.kind = "NVDEC" /\ @ # <<>> THEN Tail(@) ELSE @]
    /\ UNCHANGED nonDecoder

\* reset.  CpuDecoder: flush() clears frameAvailable_.  NvdecDecoder: the frame
\* queue is emptied and every surface is marked not in use.
Reset ==
    /\ dcd.traffic < MaxDecoderOps
    /\ dcd' = [dcd EXCEPT
                 !.traffic = @ + 1, !.lastOp = "reset", !.streak = 0, !.gets = <<>>,
                 !.frameAvailable_ = FALSE, !.enqueued = <<>>, !.returned = <<>>,
                 !.frameQueue_ = <<>>,
                 !.surfaces_ = [i \in DOMAIN @ |-> FALSE]]
    /\ UNCHANGED nonDecoder

\* NvdecDecoder::setQuality.  Nothing happens for the quality the decoder has.
\* Otherwise, under frameMutex_, freeSurfaces() releases and clears the pool and
\* allocateSurfaces() builds one of the new size with no surface in use, or
\* leaves the pool empty if an allocation fails; frameQueue_ is not touched.
NvdecSetQuality(quality, allocated) ==
    /\ dcd.kind = "NVDEC"
    /\ dcd.traffic < MaxDecoderOps
    /\ IF quality = dcd.quality
       THEN dcd' = [dcd EXCEPT !.traffic = @ + 1, !.lastOp = "setQuality"]
       ELSE dcd' = [dcd EXCEPT
                      !.traffic = @ + 1, !.lastOp = "setQuality", !.streak = 0,
                      !.gets = <<>>,
                      !.quality = quality,
                      !.surfaces_ = [i \in 1 .. (IF allocated
                                                  THEN getSurfacePoolSize(quality)
                                                  ELSE 0) |-> FALSE]]
    /\ UNCHANGED nonDecoder

\* C37: in the hardware decoder every entry of the frame queue refers to a
\* surface of the pool (its index lies inside the pool) that is marked in use,
\* also after setQuality has freed and reallocated the pool.
C37_QueuedSurfacesExist ==
    dcd.kind = "NVDEC" =>
        \A k \in 1 .. Len(dcd.frameQueue_) :
            /\ dcd.frameQueue_[k].surfaceIndex \in DOMAIN dcd.surfaces_
            /\ dcd.surfaces_[dcd.frameQueue_[k].surfaceIndex]

\* C28: for a consumer of the hardware decoder that has retrieved every picture
\* before the next one was decoded, handlePictureDisplay never finds every
\* surface in use: no picture is dropped.
C28_SurfacesComeBack ==
    (dcd.kind = "NVDEC" /\ ~dcd.lagged) => dcd.dropped = 0

C29_SuccessHasFrame ==
    [][(GetFrame /\ dcd.lastOp = "decode" /\ dcd.status = "SUCCESS") => dcd'.ret # 0]_vars

\* C30: after two decodes with no call in between, each of which produced a
\* picture, the first getFrame returns the newer picture and the next one
\* returns none.
C30_SecondFrameInvalidatesFirst ==
    dcd.streak >= 2 =>
        /\ Len(dcd.gets) >= 1 => dcd.gets[1] = dcd.newest
        /\ Len(dcd.gets) >= 2 => dcd.gets[2] = 0

(***************************************************************************)
(* Part 12: one BitstreamParser (src/core/network/bitstream_parser.cpp).   *)
(* A buffer of Annex-B NAL units is handed to parsePacket and the units    *)
(* are taken out with getNalUnit.  Bytes are numbers 0 .. 255, a buffer is *)
(* a sequence of bytes; data[i] of the code is data[i + 1] here.           *)
(***************************************************************************)
\* NAL header bytes: 0x20 (nal_ref_idc 1, nal_unit_type 0), 0x41 (a non-IDR
\* slice) and 0x65 (an IDR slice).
HeaderBytes == {32, 65, 101}

\* Bytes of a payload; none is 0, so no payload holds or completes a start code.
PayloadBytes == {1, 255}

StartCode(length) == IF length = 4 THEN <<0, 0, 0, 1>> ELSE <<0, 0, 1>>

Payloads == UNION {[1 .. n -> PayloadBytes] : n \in 0 .. MaxPayload}

\* A NAL unit as it lies in the buffer: start code, header byte, payload.
NalUnits ==
    {StartCode(length) \o <<header>> \o payload :
        length \in {3, 4}, header \in HeaderBytes, payload \in Payloads}

RECURSIVE Concat(_)
Concat(units) == IF units = <<>> THEN <<>> ELSE Head(units) \o Concat(Tail(units))

\* data[i] == 0x00 && data[i + 1] == 0x00 && data[i + 2] == 0x01
StartCode3At(data, i) == data[i + 1] = 0 /\ data[i + 2] = 0 /\ data[i + 3] = 1

\* i < size - 3 && data[i .. i + 3] == 00 00 00 01
StartCode4At(data, i) ==
    /\ i < Len(data) - 3
    /\ data[i + 1] = 0 /\ data[i + 2] = 0 /\ data[i + 3] = 0 /\ data[i + 4] = 1

\* The for loop of findStartCodes from index i on.
RECURSIVE ScanStartCodes(_, _, _)
ScanStartCodes(data, i, positions) ==
    IF ~(i < Len(data) - 2) THEN positions
    ELSE IF StartCode3At(data, i) THEN ScanStartCodes(data, i + 3, Append(positions, i))
    ELSE IF StartCode4At(data, i) THEN ScanStartCodes(data, i + 4, Append(positions, i))
    ELSE ScanStartCodes(data, i + 1, positions)

findStartCodes(data) == IF Len(data) < 3 THEN <<>> ELSE ScanStartCodes(data, 0, <<>>)

\* H264Parser::skipStartCode: the offset of the NAL header, or -1 for nullptr.
skipStartCode(data) ==
    IF Len(data) >= 4 /\ SubSeq(data, 1, 4) = <<0, 0, 0, 1>> THEN 4
    ELSE IF Len(data) >= 3 /\ SubSeq(data, 1, 3) = <<0, 0, 1>> THEN 3
    ELSE -1

\* The bytes of data from offset on.
From(data, offset) == SubSeq(data, offset + 1, Len(data))

UNSPECIFIED == 0

\* H264Parser::parseNalHeader(data, size).type: nalHeader & 0x1F.
getNalType(data) ==
    LET skipped == skipStartCode(data)
        nalData == IF skipped = -1 THEN data ELSE From(data, skipped)
    IN  IF data = <<>> \/ nalData = <<>> THEN UNSPECIFIED ELSE nalData[1] % 32

\* if (nal.type != NalUnitType::UNSPECIFIED)
KeepsUnit(nal) == nal.type # UNSPECIFIED

extractNalUnit(data) ==
    LET skipped == skipStartCode(data)
    IN  [data |-> data,
         type |-> IF data # <<>> /\ skipped # -1 /\ Len(data) - skipped > 0
                  THEN getNalType(From(data, skipped))
                  ELSE UNSPECIFIED]

\* The loop of parsePacket from the i-th start code on: what it pushes on nalUnits_.
RECURSIVE ExtractFrom(_, _, _)
ExtractFrom(data, startCodes, i) ==
    IF i > Len(startCodes) THEN <<>>
    ELSE LET nalStart == startCodes[i]
             nalEnd == IF i + 1 <= Len(startCodes) THEN startCodes[i + 1] ELSE Len(data)
             nal == extractNalUnit(SubSeq(data, nalStart + 1, nalEnd))
         IN  (IF nalEnd - nalStart > 0 /\ KeepsUnit(nal) THEN <<nal>> ELSE <<>>)
                 \o ExtractFrom(data, startCodes, i + 1)

NewParser(units) ==
    [units |-> units,        \* the NAL units the buffer was built from
     data |-> Concat(units), \* the buffer
     nalUnits_ |-> <<>>,
     pc |-> "ready",         \* "parsed" once parsePacket has returned
     ret |-> 0,              \* what parsePacket returned
     got |-> <<>>]           \* the data of the units getNalUnit handed out

ParserInit ==
    \E n \in 1 .. MaxNals : \E units \in [1 .. n -> NalUnits] : bsp = NewParser(units)

ParserUnused == bsp = NewParser(<<>>)

nonParser == <<core, gpu, gth, pool, net, qcam, dcd, fleet>>

\* int parsePacket(data, size, timestamp)
ParsePacket ==
    /\ bsp.pc = "ready"
    /\ LET pushed == IF bsp.data = <<>> \/ findStartCodes(bsp.data) = <<>> THEN <<>>
                     ELSE ExtractFrom(bsp.data, findStartCodes(bsp.data), 1)
       IN  bsp' = [bsp EXCEPT !.nalUnits_ = bsp.nalUnits_ \o pushed,
                              !.ret = Len(pushed),
                              !.pc = "parsed"]
    /\ UNCHANGED nonParser

\* bool getNalUnit(NalUnit& nal), returning true
GetNalUnit ==
    /\ bsp.pc = "parsed"
    /\ bsp.nalUnits_ # <<>>
    /\ bsp' = [bsp EXCEPT !.nalUnits_ = Tail(bsp.nalUnits_),
                          !.got = Append(bsp.got, Head(bsp.nalUnits_).data)]
    /\ UNCHANGED nonParser

\* The data of the units waiting in nalUnits_.
Waiting == [i \in 1 .. Len(bsp.nalUnits_) |-> bsp.nalUnits_[i].data]

\* C33: parser round trip.  Once parsePacket has returned for a buffer that is a
\* concatenation of NAL units with 3-byte or 4-byte start codes, it has returned
\* the number of input units, and the units handed out by getNalUnit followed by
\* those still queued are exactly the input units in input order.
C33_ParserRoundTrip ==
    bsp.pc = "parsed" => /\ bsp.ret = Len(bsp.units)
                         /\ bsp.got \o Waiting = bsp.units

(***************************************************************************)
(* Part 13: several cameras sharing the workers of the network pool and    *)
(* of the decode pool.  addCamera submits one receive task and one decode  *)
(* task; a worker that takes a task runs the camera's loop until the loop  *)
(* test, running_ && camera->isRunning(), fails or the loop breaks.        *)
(***************************************************************************)
FleetIds == 1 .. NumCams

FleetWorkers == 1 .. MaxWorkers

NewFleet(numNetThreads, numDecThreads) ==
    [state |-> [c \in FleetIds |-> "NONE"],  \* state_ of cameras_[c]; "NONE": no entry
     auto |-> {},                            \* the cameras with config.autoReconnect
     netThreads |-> numNetThreads,
     decThreads |-> numDecThreads,
     netTasks_ |-> <<>>,                     \* network pool: queued receive tasks
     decTasks_ |-> <<>>,                     \* decode pool: queued decode tasks
     recv |-> [w \in FleetWorkers |-> 0],    \* the camera whose receive loop w runs
     dec |-> [w \in FleetWorkers |-> 0],     \* the camera whose decode loop w runs
     reconnecting |-> {},                    \* network workers inside camera->reconnect()
     ops |-> 0]

FleetInit ==
    \E numNetThreads, numDecThreads \in FleetWorkers :
        fleet = NewFleet(numNetThreads, numDecThreads)

FleetUnused == fleet = NewFleet(1, 1)

nonFleet == <<core, gpu, gth, pool, net, qcam, dcd, bsp>>

\* bool CameraStream::isRunning()
isRunning(c) == fleet.state[c] = "RUNNING"

\* StreamManager::addCamera for an id that has no entry.  A camera whose start()
\* fails is destroyed and nothing is submitted.
FleetAddCamera(c, autoReconnect, started) ==
    /\ fleet.state[c] = "NONE"
    /\ IF started
       THEN fleet' = [fleet EXCEPT !.state[c] = "RUNNING",
                                   !.auto = IF autoReconnect THEN @ \cup {c} ELSE @,
                                   !.netTasks_ = Append(@, c),
                                   !.decTasks_ = Append(@, c)]
       ELSE /\ fleet.ops < MaxFleetOps
            /\ fleet' = [fleet EXCEPT !.ops = @ + 1]
    /\ UNCHANGED nonFleet

\* ThreadPool::workerLoop of a network thread: take the oldest task and run it.
\* The receive task looks its camera up and enters its loop.
FleetNetTake(w) ==
    /\ w <= fleet.netThreads
    /\ fleet.recv[w] = 0
    /\ fleet.netTasks_ # <<>>
    /\ fleet' = [fleet EXCEPT !.recv[w] = Head(fleet.netTasks_),
                              !.netTasks_ = Tail(@)]
    /\ UNCHANGED nonFleet

\* while (running_ && camera->isRunning()) fails: the receive task returns.
FleetRecvExit(w) ==
    /\ fleet.recv[w] # 0
    /\ w \notin fleet.reconnecting
    /\ ~isRunning(fleet.recv[w])
    /\ fleet' = [fleet EXCEPT !.recv[w] = 0]
    /\ UNCHANGED nonFleet

\* An exception inside the receive loop.  With autoReconnect the handler calls
\* camera->reconnect(), which first stops the camera; then the loop breaks.
FleetRecvCatch(w) ==
    /\ fleet.recv[w] # 0
    /\ w \notin fleet.reconnecting
    /\ isRunning(fleet.recv[w])
    /\ fleet.ops < MaxFleetOps
    /\ IF fleet.recv[w] \in fleet.auto
       THEN fleet' = [fleet EXCEPT !.state[fleet.recv[w]] = "STOPPED",
                                   !.reconnecting = @ \cup {w},
                                   !.ops = @ + 1]
       ELSE fleet' = [fleet EXCEPT !.recv[w] = 0, !.ops = @ + 1]
    /\ UNCHANGED nonFleet

\* CameraStream::reconnect returns from start(); break; the receive task returns.
FleetReconnected(w, started) ==
    /\ w \in fleet.reconnecting
    /\ fleet' = [fleet EXCEPT !.state[fleet.recv[w]] =
                                  IF started THEN "RUNNING" ELSE "ERROR",
                              !.reconnecting = @ \ {w},
                              !.recv[w] = 0]
    /\ UNCHANGED nonFleet

\* DecodeThreadPool::decodeWorkerLoop: take the oldest task and run it.
FleetDecTake(w) ==
    /\ w <= fleet.decThreads
    /\ fleet.dec[w] = 0
    /\ fleet.decTasks_ # <<>>
    /\ fleet' = [fleet EXCEPT !.dec[w] = Head(fleet.decTasks_),
                              !.decTasks_ = Tail(@)]
    /\ UNCHANGED nonFleet

\* while (running_ && camera->isRunning()) fails: the decode task returns.
FleetDecExit(w) ==
    /\ fleet.dec[w] # 0
    /\ ~isRunning(fleet.dec[w])
    /\ fleet' = [fleet EXCEPT !.dec[w] = 0]
    /\ UNCHANGED nonFleet

\* StreamManager::stopAll: camera->stop() for every entry.
FleetStopAll ==
    /\ fleet.ops < MaxFleetOps
    /\ fleet.reconnecting = {}
    /\ \E c \in FleetIds : fleet.state[c] \notin {"NONE", "STOPPED"}
    /\ fleet' = [fleet EXCEPT !.state = [c \in FleetIds |->
                                  IF @[c] = "NONE" THEN "NONE" ELSE "STOPPED"],
                              !.ops = @ + 1]
    /\ UNCHANGED nonFleet

\* StreamManager::startAll: camera->start() for every STOPPED entry; the
\* cameras in started are those whose start() succeeds.
FleetStartAll(started) ==
    /\ fleet.ops < MaxFleetOps
    /\ fleet.reconnecting = {}
    /\ \E c \in FleetIds : fleet.state[c] = "STOPPED"
    /\ fleet' = [fleet EXCEPT !.state = [c \in FleetIds |->
                                  IF @[c] # "STOPPED" THEN @[c]
                                  ELSE IF c \in started THEN "RUNNING" ELSE "ERROR"],
                              !.ops = @ + 1]
    /\ UNCHANGED nonFleet

\* The elements of a sequence.
Range(s) == {s[i] : i \in 1 .. Len(s)}

\* Camera c's receive loop / decode loop is executing on a worker.
RecvExecuting(c) == \E w \in FleetWorkers : fleet.recv[w] = c

DecExecuting(c) == \E w \in FleetWorkers : fleet.dec[w] = c

\* C34: every camera that addCamera added successfully eventually has its receive
\* loop executing on a network worker and its decode loop executing on a decode
\* worker, whatever the number of cameras and the sizes of the two pools.
C34_EveryLoopGetsAWorker ==
    \A c \in FleetIds : isRunning(c) ~> (RecvExecuting(c) /\ DecExecuting(c))

\* C35: whenever a camera is Running, a receive task and a decode task for it are
\* queued or executing.
C35_RunningHasTasks ==
    \A c \in FleetIds :
        isRunning(c) => /\ c \in Range(fleet.netTasks_) \/ RecvExecuting(c)
                        /\ c \in Range(fleet.decTasks_) \/ DecExecuting(c)

\* The components modelled on their own, when a specification does not use them.
HelpersUnused ==
    GpuUnused /\ PoolUnused /\ NetUnused /\ QcamUnused /\ DecoderUnused /\ ParserUnused
    /\ FleetUnused

(***************************************************************************)
(* Claims about the manager and its loops.                                 *)
(***************************************************************************)
Workers == NetWorkers \cup DecWorkers

\* The camera object is the one the registry holds for some id.
Registered(o) == \E id \in Ids : cameras_[id] = o

\* C4: stop() releases the RTSP client and the decoder only after both loops
\* have exited: a receive loop that is inside receiveNalUnits holds the camera's
\* current client, and a decode loop that is inside decode holds the camera's
\* current decoder; neither was reset by stop() in the meantime.
C4_LoopsNeverUseReleased ==
    /\ \A w \in NetWorkers : th[w].pc = "rl_recv" => sess[th[w].obj].client = th[w].cli
    /\ \A w \in DecWorkers : th[w].pc = "dl_decode" => sess[th[w].obj].decoder = th[w].dec

\* C5: once removeCamera(id) has erased and destroyed the session, no receive or
\* decode task submitted for that id is still inside its loop (or in a call it
\* made from the loop) on the destroyed CameraStream.
C5_NoAccessAfterRemove ==
    \A w \in Workers :
        ~ /\ th[w].pc \in LoopLabels \cup SessionLabels
          /\ th[w].obj # 0
          /\ ~sess[th[w].obj].alive
          /\ cameras_[th[w].id] = 0

\* C6: camera ids are unique: addCamera never replaces the session registered
\* under an id by another session.
C6_EntryNeverReplaced ==
    [][\A id \in Ids :
          (cameras_[id] # 0 /\ cameras_'[id] # 0) => cameras_'[id] = cameras_[id]]_vars

\* getGlobalStats(): the registered cameras whose getState() is st (activeCameras
\* for RUNNING, errorCameras for ERROR, reconnectingCameras for RECONNECTING).
CamerasInState(registry, sessions, st) ==
    Cardinality({id \in Ids : registry[id] # 0 /\ sessions[registry[id]].state = st})

\* stats.totalCameras = cameras_.size()
TotalCameras(registry) == Cardinality({id \in Ids : registry[id] # 0})

\* addCamera returns false in this step because camera->start() failed.
AddFailsOnStart(t) == th[t].pc = "add_free" /\ th'[t].pc = "idle"

\* C12: when the start inside addCamera fails, addCamera reports failure and the
\* camera is left registered in Error state, so getGlobalStats counts it in
\* errorCameras.
C12_FailedAddLeftInError ==
    [][\A t \in Operators :
          AddFailsOnStart(t) =>
              /\ cameras_'[th[t].id] = th[t].obj
              /\ sess'[th[t].obj].alive
              /\ sess'[th[t].obj].state = "ERROR"
              /\ CamerasInState(cameras_', sess', "ERROR") >= 1]_vars

\* The decode loop finishes handling a decode result in this step.
ResultHandled(w) == th[w].pc = "dl_result" /\ th'[w].pc = "dl_cond"

\* C13: in the decode loop, a popped packet whose decode succeeded and left a
\* frame in the decoder (getFrame would return it) leads to exactly one invocation
\* of the frame callback for that camera before the next packet is popped.
C13_FrameReachesCallback ==
    [][\A w \in DecWorkers :
          (ResultHandled(w) /\ th[w].res.status = "SUCCESS" /\ sess[th[w].obj].frameReady)
              => sess'[th[w].obj].delivered = sess[th[w].obj].delivered + 1]_vars

\* Statuses of DecodeResult that the failure model calls fatal.
FatalStatuses == {"ERROR_DECODER_FAILURE", "ERROR_OUT_OF_MEMORY"}

\* C15: when decoder.decode returns DecoderFailure or OutOfMemory for a packet, the
\* decode loop moves the camera to Error (and so stops feeding its decoder).
C15_FatalDecodeMovesToError ==
    [][\A w \in DecWorkers :
          (ResultHandled(w) /\ th[w].res.status \in FatalStatuses /\ sess[th[w].obj].alive)
              => sess'[th[w].obj].state = "ERROR"]_vars

\* In this step the receive loop of worker w meets an unrecoverable error: the read
\* inside receiveNalUnits fails for good, or the handler of a receive exception
\* runs.
ReceiveFails(w) ==
    \/ /\ th[w].pc = "rl_recv"
       /\ sess[th[w].obj].conn = "CONNECTED"
       /\ sess'[th[w].obj].conn \in {"ERROR", "RECONNECTING"}
    \/ /\ th[w].pc = "rl_catch"
       /\ th'[w].pc # "rl_catch"

\* C16: when the receive path of a Running camera hits an unrecoverable error and
\* autoReconnect is not set, the camera state becomes Error.
C16_ReceiveErrorMovesToError ==
    [][\A w \in NetWorkers :
          (/\ ReceiveFails(w)
           /\ sess[th[w].obj].alive
           /\ sess[th[w].obj].state = "RUNNING"
           /\ ~sess[th[w].obj].auto)
              => sess'[th[w].obj].state = "ERROR"]_vars

\* C17: with no operator call other than addCamera, whatever fails inside one
\* camera (its start, its receive, its decode), the process and with it every
\* network and decode worker thread stays alive.
C17_FailureNeverKillsWorkers == ~crashed

\* C18: shutdown lets both pools finish their tasks before the manager and the
\* camera sessions are released: no receive or decode task is about to read the
\* manager's running flag or registry after the manager was destroyed, or is
\* inside its loop on a camera session that was destroyed.
C18_NoTaskOutlivesShutdown ==
    \A w \in Workers :
        /\ th[w].pc \in ManagerReads => mgrAlive
        /\ th[w].pc \in LoopLabels => sess[th[w].obj].alive

(***************************************************************************)
(* SpecQueue: one producer thread calling only push, one consumer thread   *)
(* calling only pop.                                                       *)
(***************************************************************************)
InitQueue == HelpersUnused /\ SessionUnused /\ ManagerInit /\ \E requested \in 1 .. MaxCapacity : QueueInit(requested)

NextQueue ==
    \/ ProducerCallPush
    \/ PushLoad("prod") \/ PushCheck("prod") \/ PushWrite("prod") \/ PushStore("prod")
    \/ ConsumerCallPop
    \/ PopLoad("cons") \/ PopCheck("cons") \/ PopRead("cons") \/ PopClear("cons")
    \/ PopStore("cons")

SpecQueue == InitQueue /\ [][NextQueue]_vars

(***************************************************************************)
(* SpecPipe: one camera's receive loop (pushOrDropOldest on a network      *)
(* worker) against its decode loop (pop on a decode worker).               *)
(***************************************************************************)
InitPipe == HelpersUnused /\ SessionUnused /\ ManagerInit /\ \E requested \in 2 .. MaxCapacity : QueueInit(requested)

NextPipe ==
    \/ ReceiveLoopPush
    \/ \E t \in QThreads : PopLoad(t) \/ PopCheck(t) \/ PopRead(t) \/ PopClear(t)
                            \/ PopStore(t)
    \/ PushLoad("prod") \/ PushCheck("prod") \/ PushWrite("prod") \/ PushStore("prod")
    \/ ConsumerCallPop

SpecPipe == InitPipe /\ [][NextPipe]_vars

(***************************************************************************)
(* Claims about the queue.                                                 *)
(***************************************************************************)
\* C2: with one producer calling only push and one consumer calling only pop, the
\* items returned by successful pops are, under every interleaving, a prefix of the
\* items accepted by successful pushes, in push order.
C2_PopsArePrefixOfPushes == IsPrefix(popped, accepted)

\* C2 witness: a capacity-4 ring that has wrapped around, after a push was refused
\* on a full ring and four items came out.
C2_Witness == capacity_ = 4 /\ Len(popped) >= 4 /\ rejected # {}

\* C1: the packets the decode loop pops and hands to decoder.decode form an in-order
\* subsequence of the packets the receive loop produced: each is a produced packet
\* with its data, none occurs twice and none comes before an earlier one.
C1_DecodedInOrderSubsequence ==
    /\ \A i \in 1 .. Len(popped) : popped[i].full /\ popped[i].ts \in 1 .. produced
    /\ \A i, j \in 1 .. Len(popped) : i < j => popped[i].ts < popped[j].ts

\* The step in which pushOrDropOldest returns to the receive loop.
DropReturns == qpc["prod"] # "idle" /\ qpc'["prod"] = "idle"

\* buffer_ index before i (the slot of the newest element when i is tail_).
PrevIndex(i) == BitAnd(i + capacity_ - 1, capacity_ - 1)

\* C3: whenever pushOrDropOldest(x) returns, x has been stored (its last push
\* returned true) and x is the newest element of the queue.
C3_DropAlwaysStores ==
    [][DropReturns => /\ dropRet' = TRUE
                      /\ buffer_'[PrevIndex(tail_')] = qloc'["prod"].item]_vars

(***************************************************************************)
(* SpecSessionSeq: start, stop and reconnect called on one CameraStream,   *)
(* one call at a time.  SpecSession: the same calls from two threads that  *)
(* may overlap.                                                            *)
(***************************************************************************)
InitSession == HelpersUnused /\ QueueUnused /\ SessionInit /\ ManagerInit

\* A call made while no other call is in progress.
CallStartSeq(t) == AllIdle /\ CallStart(t)

CallStopSeq(t) == AllIdle /\ CallStop(t)

CallReconnectSeq(t) == AllIdle /\ CallReconnect(t)

NextSessionSeq ==
    \E t \in Operators :
        \/ CallStartSeq(t) \/ CallStopSeq(t) \/ CallReconnectSeq(t)
        \/ StartCheck(t) \/ StartConnecting(t) \/ StartRtsp(t) \/ StartDecoder(t)
        \/ StartFailed(t) \/ StartRunning(t)
        \/ StopCheck(t) \/ StopState(t) \/ StopClient(t) \/ StopDecoder(t) \/ StopDrain(t)
        \/ ReconnectCheck(t) \/ ReconnectState(t) \/ ReconnectSleep(t) \/ ReconnectReturn(t)

SpecSessionSeq == InitSession /\ [][NextSessionSeq]_vars

\* Between two calls the receive loop of a Running camera has pushed packets:
\* packetQueue->pushOrDropOldest(std::move(packet)).
PacketsArrive ==
    /\ AllIdle
    /\ ~crashed
    /\ sess[1].state = "RUNNING"
    /\ ~sess[1].queued
    /\ sess' = [sess EXCEPT ![1].queued = TRUE]
    /\ UNCHANGED <<th, calls, crashed, qvars, mvars>>

\* SpecSessionFed: the calls of SpecSessionSeq on a camera whose queue fills
\* while it is Running.
NextSessionFed == NextSessionSeq \/ PacketsArrive

SpecSessionFed == InitSession /\ [][NextSessionFed]_vars

NextSession ==
    \E t \in Operators :
        \/ CallStart(t) \/ CallStop(t) \/ CallReconnect(t)
        \/ StartCheck(t) \/ StartConnecting(t) \/ StartRtsp(t) \/ StartDecoder(t)
        \/ StartFailed(t) \/ StartRunning(t)
        \/ StopCheck(t) \/ StopState(t) \/ StopClient(t) \/ StopDecoder(t) \/ StopDrain(t)
        \/ ReconnectCheck(t) \/ ReconnectState(t) \/ ReconnectSleep(t) \/ ReconnectReturn(t)

SpecSession == InitSession /\ [][NextSession]_vars

(***************************************************************************)
(* SpecManager: two operator threads calling addCamera, removeCamera and   *)
(* reconnectAll, one network worker and one decode worker.                 *)
(***************************************************************************)
InitManager == HelpersUnused /\ QueueUnused /\ SessionUnused /\ ManagerInit

OperatorNext ==
    \E t \in Operators :
        \/ \E id \in Ids : AddCheck(t, id)
        \/ AddCreate(t) \/ AddStarted(t) \/ AddFree(t) \/ AddInsert(t) \/ AddOldFree(t)
        \/ AddSubmitRecv(t) \/ AddSubmitDecode(t)
        \/ \E id \in Ids : RemoveLock(t, id)
        \/ RemoveErase(t) \/ RemoveFree(t)
        \/ ReconnectAllLock(t) \/ ReconnectAllNext(t)

WorkerNext ==
    \/ \E w \in NetWorkers : NetTake(w) \/ RecvGet(w) \/ RecvPtrs(w) \/ RecvCond(w)
                              \/ RecvReceive(w) \/ RecvCatch(w)
    \/ \E w \in DecWorkers : DecTake(w) \/ DecGet(w) \/ DecPtrs(w) \/ DecCond(w)
                              \/ DecPop(w) \/ DecDecode(w) \/ DecResult(w)
    \/ \E w \in NetWorkers \cup DecWorkers : LoopCrash(w)
    \/ \E o \in Objs : ClientBackground(o)

SessionNext ==
    \E t \in Threads :
        \/ StartCheck(t) \/ StartConnecting(t) \/ StartRtsp(t) \/ StartDecoder(t)
        \/ StartFailed(t) \/ StartRunning(t)
        \/ StopCheck(t) \/ StopState(t) \/ StopClient(t) \/ StopDecoder(t) \/ StopDrain(t)
        \/ ReconnectCheck(t) \/ ReconnectState(t) \/ ReconnectSleep(t) \/ ReconnectReturn(t)
        \/ OnDeadObject(t)

NextManager == OperatorNext \/ WorkerNext \/ SessionNext

SpecManager == InitManager /\ [][NextManager]_vars

(***************************************************************************)
(* SpecAuto: the system left to itself.  One operator adds cameras and     *)
(* makes no other call; the workers and the calls they make always get to  *)
(* run (weak fairness).                                                    *)
(***************************************************************************)
AddNext ==
    \/ \E id \in Ids : AddCheck("op1", id)
    \/ AddCreate("op1") \/ AddStarted("op1") \/ AddFree("op1") \/ AddInsert("op1")
    \/ AddSubmitRecv("op1") \/ AddSubmitDecode("op1")

LoopNext ==
    \/ \E w \in NetWorkers : NetTake(w) \/ RecvGet(w) \/ RecvPtrs(w) \/ RecvCond(w)
                              \/ RecvReceive(w) \/ RecvCatch(w)
    \/ \E w \in DecWorkers : DecTake(w) \/ DecGet(w) \/ DecPtrs(w) \/ DecCond(w)
                              \/ DecPop(w) \/ DecDecode(w) \/ DecResult(w)
    \/ \E w \in NetWorkers \cup DecWorkers : LoopCrash(w)
    \/ \E o \in Objs : ClientBackground(o)

CallsNext ==
    \E t \in Threads :
        \/ StartCheck(t) \/ StartConnecting(t) \/ StartRtsp(t) \/ StartDecoder(t)
        \/ StartFailed(t) \/ StartRunning(t)
        \/ StopCheck(t) \/ StopState(t) \/ StopClient(t) \/ StopDecoder(t) \/ StopDrain(t)
        \/ ReconnectCheck(t) \/ ReconnectState(t) \/ ReconnectSleep(t) \/ ReconnectReturn(t)

NextAuto == AddNext \/ LoopNext \/ CallsNext

SpecAuto == InitManager /\ [][NextAuto]_vars /\ WF_vars(LoopNext \/ CallsNext)

\* C10: a registered camera that is in Error with autoReconnect set is moved to
\* Reconnecting by the system itself, without any operator call (as long as the
\* process lives).
C10_AutoPromotesError ==
    \A o \in Objs :
        (Registered(o) /\ sess[o].auto /\ sess[o].state = "ERROR" /\ ~crashed)
            ~> (sess[o].state = "RECONNECTING" \/ crashed)

(***************************************************************************)
(* SpecCallback: two operators installing callbacks and two decode workers *)
(* delivering frames of two cameras.                                       *)
(***************************************************************************)
InitCallback == HelpersUnused /\ QueueUnused /\ SessionUnused /\ ManagerInit

NextCallback ==
    \/ \E t \in Operators : \E cb \in Callbacks : CallSetFrameCallback(t, cb)
    \/ \E w \in CallbackWorkers : \E id \in Objs : CallOnFrameDecoded(w, id)
    \/ \E t \in Threads : SetLock(t) \/ SetRelock(t) \/ SetStore(t)
    \/ \E w \in CallbackWorkers : OnFrameLock(w) \/ OnFrameTest(w) \/ CallbackReturns(w)
    \/ \E w \in CallbackWorkers : \E cb \in Callbacks : CallbackSets(w, cb)

SpecCallback == InitCallback /\ [][NextCallback]_vars

(***************************************************************************)
(* SpecShutdown: cameras are added, the loops run, the pipeline is shut    *)
(* down.                                                                   *)
(***************************************************************************)
NextShutdown ==
    \/ \E id \in Ids : AddBeforeShutdown("op1", id)
    \/ AddCreate("op1") \/ AddStarted("op1") \/ AddFree("op1") \/ AddInsert("op1")
    \/ AddSubmitRecv("op1") \/ AddSubmitDecode("op1")
    \/ ShutdownBegin("op1") \/ StopAllNext("op1") \/ ShutdownClear("op1")
    \/ ShutdownFree("op1") \/ ManagerReset("op1") \/ PoolsJoined("op1")
    \/ LoopNext
    \/ CallsNext
    \/ \E t \in Threads : OnDeadObject(t)
    \/ \E w \in NetWorkers \cup DecWorkers : ManagerCrash(w)

SpecShutdown == InitManager /\ [][NextShutdown]_vars

(***************************************************************************)
(* SpecReconnect: an RtspClient whose caller only receives; the            *)
(* reconnection thread always gets to run.  SpecRtsp: the caller also      *)
(* calls disconnect and connect.                                           *)
(***************************************************************************)
InitRtsp ==
    /\ HelpersUnused
    /\ QueueUnused
    /\ SessionUnused
    /\ cameras_ = [id \in Ids |-> 0]
    /\ lockW = "none"
    /\ lockR = {}
    /\ netTasks = <<>>
    /\ decTasks = <<>>
    /\ assigned = {}
    /\ running_ = TRUE
    /\ nObjs = 0
    /\ faults = 0
    /\ callbackMutex_ = "none"
    /\ frameCallback_ = 0
    /\ mgrAlive = TRUE
    /\ RtspInit

NextReconnect ==
    \/ RtspReadError
    \/ AttemptSleep \/ AttemptOpen \/ AttemptConnected \/ AttemptsExhausted

SpecReconnect == InitRtsp /\ [][NextReconnect]_vars /\ WF_vars(BackgroundNext)

\* An RtspClient whose caller keeps calling receiveNalUnits.
NextReceive ==
    \/ RtspReadError
    \/ RtspNotConnected
    \/ RtspTimeout
    \/ RtspUnits
    \/ AttemptSleep
    \/ AttemptOpen
    \/ AttemptConnected
    \/ AttemptsExhausted

SpecReceive == InitRtsp /\ [][NextReceive]_vars

NextRtsp == NextReconnect \/ RtspDisconnect \/ RtspConnect

SpecRtsp == InitRtsp /\ [][NextRtsp]_vars /\ WF_vars(BackgroundNext)

(***************************************************************************)
(* SpecGpu: two threads call into one GPUMemoryPool.                       *)
(***************************************************************************)
InitGpu == QueueUnused /\ SessionUnused /\ ManagerInit /\ ParserUnused /\ FleetUnused /\ GpuInit /\ PoolUnused /\ NetUnused /\ QcamUnused /\ DecoderUnused

NextGpu ==
    \/ \E t \in GpuThreads, id \in GpuIds, bytes \in GpuBytes, surfaceCount \in GpuSurfaces :
          \/ GpuCall(t, "register", id, bytes, surfaceCount)
          \/ GpuCall(t, "unregister", id, bytes, surfaceCount)
          \/ GpuCall(t, "update", id, bytes, surfaceCount)
    \/ \E t \in GpuThreads :
          \/ GpuLock(t)
          \/ RegisterStore(t)
          \/ StorePeak(t)
          \/ Unregister(t)
          \/ UpdateFound(t)
          \/ UpdateNotFound(t)
    \/ GetStats

SpecGpu == InitGpu /\ [][NextGpu]_vars

(***************************************************************************)
(* SpecPool: tasks are submitted to a pool that is shut down at some point. *)
(***************************************************************************)
InitPool == QueueUnused /\ SessionUnused /\ ManagerInit /\ ParserUnused /\ FleetUnused /\ GpuUnused /\ PoolInit /\ NetUnused /\ QcamUnused /\ DecoderUnused

NextPool ==
    \/ Submit
    \/ \E w \in PoolWorkers : WorkerInit(w) \/ WorkerTake(w) \/ WorkerRun(w)
    \/ \E waitForTasks \in BOOLEAN : ShutdownCall(waitForTasks)
    \/ ShutdownJoined

SpecPool == InitPool /\ [][NextPool]_vars

(***************************************************************************)
(* SpecAssign: cameras are assigned to and unassigned from the workers of  *)
(* a NetworkThreadPool.                                                    *)
(***************************************************************************)
InitAssign ==
    QueueUnused /\ SessionUnused /\ ManagerInit /\ ParserUnused /\ FleetUnused /\ GpuUnused /\ PoolUnused /\ NetInit /\ QcamUnused /\ DecoderUnused

NextAssign ==
    \/ \E id \in NetIds : AssignCamera(id)
    \/ \E id \in NetIds : UnassignCamera(id)

SpecAssign == InitAssign /\ [][NextAssign]_vars

(***************************************************************************)
(* SpecQuality: one camera is started and stopped and its quality is set.  *)
(***************************************************************************)
InitQuality ==
    QueueUnused /\ SessionUnused /\ ManagerInit /\ ParserUnused /\ FleetUnused /\ GpuUnused /\ PoolUnused /\ NetUnused
    /\ QcamInit /\ DecoderUnused

NextQuality ==
    \/ QcamStart
    \/ QcamStop
    \/ \E quality \in Qualities : SetQuality(quality)

SpecQuality == InitQuality /\ [][NextQuality]_vars

(***************************************************************************)
(* SpecDecoder: packets are decoded and frames retrieved from one decoder. *)
(***************************************************************************)
InitDecoder ==
    QueueUnused /\ SessionUnused /\ ManagerInit /\ ParserUnused /\ FleetUnused /\ GpuUnused /\ PoolUnused /\ NetUnused
    /\ QcamUnused /\ DecoderInit

NextDecoder ==
    \/ \E outcome \in PacketOutcomes("CPU") : CpuDecode(outcome)
    \/ \E outcome \in PacketOutcomes("NVDEC") : NvdecDecode(outcome)
    \/ GetFrame
    \/ Reset

SpecDecoder == InitDecoder /\ [][NextDecoder]_vars

(***************************************************************************)
(* SpecDisplay: display callbacks and getFrame calls on one NvdecDecoder.  *)
(***************************************************************************)
InitDisplay ==
    /\ QueueUnused /\ SessionUnused /\ ManagerInit /\ ParserUnused /\ FleetUnused /\ GpuUnused /\ PoolUnused /\ NetUnused
    /\ QcamUnused
    /\ \E quality \in Qualities : dcd = NewDecoder("NVDEC", quality)

NextDisplay ==
    \/ \E outcome \in PacketOutcomes("NVDEC") : NvdecDecode(outcome)
    \/ GetFrame

SpecDisplay == InitDisplay /\ [][NextDisplay]_vars

(***************************************************************************)
(* SpecRing: push, pushOrDropOldest and pop called on one queue one call   *)
(* at a time, no call overlapping another.                                 *)
(***************************************************************************)
QueueIdle == \A t \in QThreads : qpc[t] = "idle"

PushSeq == QueueIdle /\ ProducerCallPush

PushOrDropOldestSeq == QueueIdle /\ ReceiveLoopPush

PopSeq == QueueIdle /\ ConsumerCallPop

InitRing ==
    HelpersUnused /\ SessionUnused /\ ManagerInit
    /\ \E requested \in 1 .. MaxCapacity : QueueInit(requested)

NextRing ==
    \/ PushSeq
    \/ PushOrDropOldestSeq
    \/ PopSeq
    \/ PushLoad("prod") \/ PushCheck("prod") \/ PushWrite("prod") \/ PushStore("prod")
    \/ PopLoad("prod") \/ PopCheck("prod") \/ PopRead("prod") \/ PopClear("prod")
    \/ PopStore("prod")
    \/ PopLoad("cons") \/ PopCheck("cons") \/ PopRead("cons") \/ PopClear("cons")
    \/ PopStore("cons")

SpecRing == InitRing /\ [][NextRing]_vars

\* size_t size() const
size ==
    LET h == head_
        t == tail_
    IN  IF t >= h THEN t - h ELSE capacity_ - h + t

\* The packets 1 .. n in order.
FirstPackets(n) == [i \in 1 .. n |-> Packet(i)]

\* C32: a queue of capacity C holds C items.  When the queue's calls do not
\* overlap, (a) push refuses an item only when capacity() items are stored, and
\* (b) on a queue of capacity 4 four pushes with no pop and no pushOrDropOldest
\* are all accepted, so that the queue holds packets 1, 2, 3, 4.
C32_HoldsCapacityItems ==
    /\ (qpc["prod"] = "push_check" /\ PushFull(qloc["prod"].nextTail, head_))
           => size = capacity_
    /\ (/\ capacity_ = 4 /\ QueueIdle /\ produced = 4
        /\ popped = <<>> /\ dropRet = "none")
           => accepted = FirstPackets(4)

\* C39: the ring keeps one slot unused.  With a producer and a consumer running
\* concurrently, the number of stored items (accepted and not yet popped) is what
\* size() computes and is at most capacity() - 1; a push that finds capacity() - 1
\* items stored returns false; a queue of capacity 1 never accepts an item.
C39_OneSlotUnused ==
    /\ Len(accepted) - Len(popped) = size
    /\ size <= capacity_ - 1
    /\ (qpc["prod"] = "push_check" /\ size = capacity_ - 1)
           => PushFull(qloc["prod"].nextTail, head_)
    /\ capacity_ = 1 => accepted = <<>>

\* C39 witness: a ring of capacity 4 that has refused a push, has had an item
\* popped, and stores three items again with tail_ wrapped around to slot 0.
C39_Witness ==
    /\ capacity_ = 4
    /\ size = 3
    /\ Len(popped) >= 1
    /\ tail_ < head_
    /\ rejected # {}

(***************************************************************************)
(* SpecParser: one buffer of NAL units is parsed and the units taken out.  *)
(***************************************************************************)
InitParser ==
    QueueUnused /\ SessionUnused /\ ManagerInit /\ GpuUnused /\ PoolUnused /\ NetUnused
    /\ QcamUnused /\ DecoderUnused /\ ParserInit /\ FleetUnused

NextParser ==
    \/ ParsePacket
    \/ GetNalUnit

SpecParser == InitParser /\ [][NextParser]_vars

(***************************************************************************)
(* SpecFleetAdd: cameras are added and the pools' workers take their       *)
(* tasks.  An idle worker of a pool whose queue is not empty takes a task. *)
(* SpecFleet: in addition the cameras are stopped and started again and    *)
(* receive loops fail; a loop whose test fails returns.                    *)
(***************************************************************************)
InitFleet ==
    QueueUnused /\ SessionUnused /\ ManagerInit /\ GpuUnused /\ PoolUnused /\ NetUnused
    /\ QcamUnused /\ DecoderUnused /\ ParserUnused /\ FleetInit

AddSucceeds(c) == \E autoReconnect \in BOOLEAN : FleetAddCamera(c, autoReconnect, TRUE)

NextFleetAdd ==
    \/ \E c \in FleetIds : AddSucceeds(c)
    \/ \E w \in FleetWorkers : FleetNetTake(w)
    \/ \E w \in FleetWorkers : FleetDecTake(w)

WorkersTake ==
    \A w \in FleetWorkers : WF_vars(FleetNetTake(w)) /\ WF_vars(FleetDecTake(w))

SpecFleetAdd == InitFleet /\ [][NextFleetAdd]_vars /\ WorkersTake

NextFleet ==
    \/ \E c \in FleetIds, autoReconnect, started \in BOOLEAN :
           FleetAddCamera(c, autoReconnect, started)
    \/ \E w \in FleetWorkers : FleetNetTake(w)
    \/ \E w \in FleetWorkers : FleetRecvExit(w)
    \/ \E w \in FleetWorkers : FleetRecvCatch(w)
    \/ \E w \in FleetWorkers, started \in BOOLEAN : FleetReconnected(w, started)
    \/ \E w \in FleetWorkers : FleetDecTake(w)
    \/ \E w \in FleetWorkers : FleetDecExit(w)
    \/ FleetStopAll
    \/ \E started \in SUBSET FleetIds : FleetStartAll(started)

SpecFleet == InitFleet /\ [][NextFleet]_vars

(***************************************************************************)
(* SpecRealloc: one NvdecDecoder decodes, hands out frames, is reset and   *)
(* has its quality changed.                                                *)
(***************************************************************************)
InitRealloc ==
    /\ QueueUnused /\ SessionUnused /\ ManagerInit /\ ParserUnused /\ FleetUnused
    /\ GpuUnused /\ PoolUnused /\ NetUnused /\ QcamUnused
    /\ \E quality \in Qualities : dcd = NewDecoder("NVDEC", quality)

NextRealloc ==
    \/ \E outcome \in PacketOutcomes("NVDEC") : NvdecDecode(outcome)
    \/ GetFrame
    \/ Reset
    \/ \E quality \in Qualities, allocated \in BOOLEAN : NvdecSetQuality(quality, allocated)

SpecRealloc == InitRealloc /\ [][NextRealloc]_vars

Spec == SpecQueue

=============================================================================
